---- MODULE Spec2Model ----
(***************************************************************************)
(* The streaming client and event reducer of the chat widget:              *)
(* useAGUIChat.sendMessage / clearMessages (hooks/useAGUIChat.ts) on top   *)
(* of AGUIClient.chat (lib/agui-client.ts).                                *)
(*                                                                         *)
(* Strings that the code only compares or stores (ids, names, error        *)
(* messages) are TLA+ strings.  Strings that the code concatenates or      *)
(* parses (message content, tool arguments) are sequences of one-character *)
(* strings, so that concatenation order and JSON validity are computed.    *)
(***************************************************************************)
EXTENDS Integers, Sequences, FiniteSets, TLC

\* ------------------------------------------------------------------ bounds

\* Inputs of one behaviour: the sendMessage calls of the user plus the
\* events the server delivers over all streams.
MaxInputs == 5

\* Lines of one response body.
MaxLines == 3

\* The steps of a run that is replayed: enough for a send whose stream calls
\* a local tool and whose continuation stream ends.
MaxReplaySteps == 7

\* Widget instances created on one page, and state updates of the widget
\* that wait for the next render.
MaxInits == 2
MaxUpdates == 2

\* ------------------------------------------------------------- constants

Null == "<null>"
Absent == "<absent>"
NoId == ""
NoThread == 0
NoRun == 0
EmptyStr == <<>>

\* ------------------------------------------------------ environment inputs

\* messageId values the server may put in TEXT_MESSAGE_START.
MessageIds == {"m1", "m2"}
\* delta values of TEXT_MESSAGE_CONTENT.
TextDeltas == {<<"a">>, <<"b">>}
\* toolCallId / toolCallName pairs of TOOL_CALL_START.
ToolStarts == {[id |-> "t1", name |-> "get_current_time"],
               [id |-> "t2", name |-> "search"]}
\* delta values of TOOL_CALL_ARGS.
ArgDeltas == {<<"{">>, <<"}">>, <<"1">>}
\* message values of RUN_ERROR.
RunErrorMessages == {"boom"}
\* Event types that no case of the primary switch handles, and the one
\* (THINKING_TEXT_MESSAGE_CONTENT) whose case does nothing.
UnhandledTypes == {"RUN_STARTED", "THINKING_TEXT_MESSAGE_CONTENT"}
\* Event types that fall to the default case of the continuation switch.
ContUnhandledTypes ==
    UnhandledTypes \cup {"TOOL_CALL_START", "TOOL_CALL_ARGS", "TOOL_CALL_END"}
\* Text the user sends.
UserInputs == {<<"h">>}
\* Values a tool handler may resolve with.
HandlerResults == {[kind |-> "object", n |-> 0, s |-> <<>>],
                   [kind |-> "number", n |-> 7, s |-> <<>>]}
\* Values a tool handler may reject with: an Error with a message, or a
\* value that is not an Error.
HandlerFailures == {[isError |-> TRUE, message |-> "handler failed"],
                    [isError |-> FALSE, message |-> "not an Error"]}
\* Failures of the streaming request (a response that is not ok, a response
\* without a body) and of reading its body.
StreamFailures ==
    {[isError |-> TRUE, message |-> "Failed to stream run: 500", when |-> "request"],
     [isError |-> TRUE, message |-> "No response body", when |-> "request"],
     [isError |-> TRUE, message |-> "network error", when |-> "read"]}
\* What getAccessToken returns: a token, or null.
AccessTokens == {Null, "tok"}

\* ---------------------------------------------------------- the registry

\* tools = [...builtInTools, ...externalTools]
Tools == <<[name |-> "get_current_time"]>>

ToolsMapHas(name) == \E i \in 1..Len(Tools) : Tools[i].name = name

\* Faulty variant: every tool call is taken for a client-side one.
IsClientSideToolAlways(name) == TRUE

IsClientSideTool(name) == ToolsMapHas(name)

\* ------------------------------------------------------------------ JSON

Digits == <<"0", "1", "2", "3", "4", "5", "6", "7", "8", "9">>

IsDigit(c) == \E i \in 1..Len(Digits) : Digits[i] = c

DigitValue(c) == (CHOOSE i \in 1..Len(Digits) : Digits[i] = c) - 1

\* A parsed JSON value: an object, a number (n) or a string (s).
EmptyObject == [kind |-> "object", n |-> 0, s |-> <<>>]

Quote == "\""

\* The JSON texts over the characters used here: the empty object, the
\* non-negative integers without a leading zero, and the strings without
\* escapes.
IsValidJSON(s) ==
    \/ s = <<"{", "}">>
    \/ /\ Len(s) >= 1
       /\ \A i \in 1..Len(s) : IsDigit(s[i])
       /\ (Len(s) > 1 => s[1] # "0")
    \/ /\ Len(s) >= 2
       /\ s[1] = Quote
       /\ s[Len(s)] = Quote
       /\ \A i \in 2..(Len(s) - 1) : s[i] \notin {Quote, "\\", "\n"}

RECURSIVE NumberValue(_)
NumberValue(s) ==
    IF s = <<>> THEN 0
    ELSE 10 * NumberValue(SubSeq(s, 1, Len(s) - 1)) + DigitValue(s[Len(s)])

JSONParse(s) ==
    IF s = <<"{", "}">> THEN EmptyObject
    ELSE IF s[1] = Quote
    THEN [kind |-> "string", n |-> 0, s |-> SubSeq(s, 2, Len(s) - 1)]
    ELSE [kind |-> "number", n |-> NumberValue(s), s |-> <<>>]

RECURSIVE NumberString(_)
NumberString(n) ==
    IF n < 10 THEN <<Digits[n + 1]>>
    ELSE NumberString(n \div 10) \o <<Digits[(n % 10) + 1]>>

JSONStringify(v) ==
    IF v.kind = "object" THEN <<"{", "}">>
    ELSE IF v.kind = "string" THEN <<Quote>> \o v.s \o <<Quote>>
    ELSE NumberString(v.n)

\* ------------------------------------------------------------- messages

Message(id, role, content) ==
    [id |-> id, role |-> role, content |-> content,
     toolCalls |-> <<>>, toolCallId |-> Absent, toolName |-> Absent]

\* The message of the SyntaxError that JSON.parse throws.
JSONSyntaxErrorMessage == "SyntaxError: invalid JSON"

\* crypto.randomUUID(): the n-th identifier drawn.
Uuid(n) == "uuid" \o ToString(n)

\* currentContent += delta
AppendContent(content, delta) == content \o delta

\* Faulty variant: the fragment is put in front.
AppendArgsReversed(args, delta) == delta \o args

\* currentToolArgs += delta
AppendArgs(args, delta) == args \o delta

\* currentToolArgs || "{}"
ToolCallArguments(args) == IF args = EmptyStr THEN <<"{", "}">> ELSE args

\* Faulty variant: the full content is applied as if it were a diff.
SetContentAsDiff(prev, id, content) ==
    [i \in 1..Len(prev) |->
        IF prev[i].id = id
        THEN [prev[i] EXCEPT !.content = prev[i].content \o content]
        ELSE prev[i]]

\* prev.map(m => m.id === currentMessageId ? { ...m, content } : m)
SetContent(prev, id, content) ==
    [i \in 1..Len(prev) |->
        IF prev[i].id = id THEN [prev[i] EXCEPT !.content = content]
        ELSE prev[i]]

\* prev.map(m => m.id === currentMessageId ? assistantMessageWithToolCalls : m)
ReplaceMessage(prev, id, msg) ==
    [i \in 1..Len(prev) |-> IF prev[i].id = id THEN msg ELSE prev[i]]

\* Faulty variant: the message of the Error is dropped.
ErrMessageAlwaysFallback(err, fallback) == fallback

\* Faulty variant: the message is read off a value that may be no Error.
ErrMessageUnchecked(err, fallback) == IF err.isError THEN err.message ELSE Null

\* err instanceof Error ? err.message : fallback
ErrMessage(err, fallback) == IF err.isError THEN err.message ELSE fallback

\* Faulty variant: the assistant message carrying the tool call is left out.
UpdatedMessagesWithoutAssistant(all, user, assistant, toolResult) ==
    SubSeq(all, 1, Len(all) - 1) \o <<user, toolResult>>

\* [...allMessages.slice(0, -1), userMessage, assistantMessageWithToolCalls,
\*  toolResultMessage]
UpdatedMessages(all, user, assistant, toolResult) ==
    SubSeq(all, 1, Len(all) - 1) \o <<user, assistant, toolResult>>

\* ------------------------------------------------------------------ state

VARIABLES
    \* React state of the hook
    messages, isLoading, error,
    \* AGUIClient fields of clientRef.current
    threadId, currentRunId,
    \* the activation of sendMessage: where it is suspended, and its locals
    pc, userMessage, allMessages,
    currentMessageId, currentContent,
    currentToolCallId, currentToolName, currentToolArgs, pendingToolCalls,
    \* environment counters
    uuidCount, idCount, nEvents, nSends,
    \* history: handler invocations, histories passed to client.chat, the
    \* settlement of the last handler invocation, the last event delivered
    handlerCalls, chatCalls, handlerOutcome, lastEvent,
    \* history: the message opened by the last TEXT_MESSAGE_START, the last
    \* TOOL_CALL_START and the argument deltas since, the first RUN_ERROR of
    \* the send, the streams that delivered RUN_ERROR, whether a handler of
    \* the send failed, the list at send time, how the last send ended
    text, call, runErr, stopped, failed, atSend, settled,
    \* history: the kinds of failure met during the send, the last entry of
    \* the transport (client.chat) and the requests it sent
    failures, entry,
    \* what the credential provider returns
    accessToken,
    \* one activation of streamRun: the bytes of the response body, how many
    \* of them the network has delivered and how many reader.read() has
    \* returned, the bytes the TextDecoder holds back, the locals buffer and
    \* lines, the events yielded so far, where the generator is
    response, arrived, offset, decoder, buffer, lines, yielded, reader,
    \* history: the kinds of place where a chunk boundary has fallen
    cuts,
    \* replay: the inputs of a first run of the hook (what the caller, the
    \* server and the tool handlers did, in order), how far a second run has
    \* followed them, and the final list of the first run
    replay,
    \* the page: the React roots created and not unmounted, the ids of the
    \* elements of document.body that matter, window.SoliplexChat._instance
    \* (its root, 0 when undefined, its container and whether its controls
    \* are set)
    roots, document, instance, container, controls,
    \* the React root of the instance: the autoHideSeconds of its config,
    \* whether the tree is mounted, the state of ChatWidget, the state updates
    \* queued and not yet rendered, the auto-hide timer
    autoHideSeconds, mounted, isOpen, isVisible, hasInteracted, updates, timer,
    \* history: the roots created so far, the last call of the widget API or
    \* gesture of the user
    nInit, lastInput,
    \* the Chat component: its props externalTools, suggestions and
    \* showHeader, its state input; what the last executeClientTool of the
    \* hook it mounts came to
    externalTools, suggestions, showHeader, input, executed,
    \* whether clearMessages has set clientRef.current to null while the
    \* activation of sendMessage goes on with its client; the later
    \* activations of sendMessage, started while that one is in flight, that
    \* are suspended on client.chat
    detached, suspended

reactVars == <<messages, isLoading, error>>
clientVars == <<threadId, currentRunId>>
textVars == <<currentMessageId, currentContent>>
toolVars == <<currentToolCallId, currentToolName, currentToolArgs, pendingToolCalls>>
sendVars == <<userMessage, allMessages>>
histVars == <<handlerCalls, chatCalls, handlerOutcome>>
streamRunVars == <<response, arrived, offset, decoder, buffer, lines, yielded,
                   reader, cuts>>

vars == <<messages, isLoading, error, threadId, currentRunId, pc, userMessage,
          allMessages, currentMessageId, currentContent, currentToolCallId,
          currentToolName, currentToolArgs, pendingToolCalls, uuidCount, idCount,
          nEvents, nSends, handlerCalls, chatCalls, handlerOutcome, lastEvent,
          text, call, runErr, stopped, failed, atSend, settled, failures,
          entry, accessToken, response,
          arrived, offset, decoder, buffer, lines, yielded, reader, cuts,
          replay, roots, document, instance, container, controls, autoHideSeconds,
          mounted, isOpen, isVisible, hasInteracted, updates, timer, nInit,
          lastInput, externalTools, suggestions, showHeader, input, executed,
          detached, suspended>>

widgetVars == <<roots, document, instance, container, controls, autoHideSeconds,
                mounted, isOpen, isVisible, hasInteracted, updates, timer, nInit,
                lastInput>>

\* The variables of the Chat component but `detached`, which sendMessage
\* sets.
chatRest == <<externalTools, suggestions, showHeader, input, executed, suspended>>

chatVars == <<externalTools, suggestions, showHeader, input, executed, suspended,
              detached>>

hookVars == <<messages, isLoading, error, threadId, currentRunId, pc, userMessage,
              allMessages, currentMessageId, currentContent, currentToolCallId,
              currentToolName, currentToolArgs, pendingToolCalls, uuidCount,
              idCount, nEvents, nSends, handlerCalls, chatCalls, handlerOutcome,
              lastEvent, text, call, runErr, stopped, failed, atSend, settled,
              failures, entry, accessToken, replay>>

NoMessage == Message(NoId, "none", EmptyStr)
NoEvent == [stream |-> "none", type |-> "none"]
NoText == [phase |-> "none", stream |-> "none", idx |-> 0, id |-> NoId, deltas |-> <<>>]
NoCall == [id |-> NoId, name |-> NoId, deltas |-> <<>>]
NoRunErr == [seen |-> FALSE, message |-> Null, messages |-> <<>>]
NoFailure == [isError |-> FALSE, message |-> Null]
NoOutcome == [status |-> "none", value |-> EmptyObject, failure |-> NoFailure]
NoIds == [thread |-> NoThread, run |-> NoRun]
NoReplay == [mode |-> "off", script |-> <<>>, pos |-> 0, first |-> <<>>]
NoEntry == [n |-> 0, idx |-> 0, create |-> "none", under |-> NoThread, ok |-> FALSE,
            returned |-> NoIds, streamed |-> NoIds, headers |-> <<>>]

\* The hook as mounted: the useState and useRef initial values, no send.
HookInit ==
    /\ messages = <<>>
    /\ isLoading = FALSE
    /\ error = Null
    /\ threadId = NoThread
    /\ currentRunId = NoRun
    /\ pc = "idle"
    /\ userMessage = NoMessage
    /\ allMessages = <<>>
    /\ currentMessageId = NoId
    /\ currentContent = EmptyStr
    /\ currentToolCallId = NoId
    /\ currentToolName = NoId
    /\ currentToolArgs = EmptyStr
    /\ pendingToolCalls = <<>>
    /\ uuidCount = 0
    /\ idCount = 0
    /\ nEvents = 0
    /\ nSends = 0
    /\ handlerCalls = <<>>
    /\ chatCalls = <<>>
    /\ handlerOutcome = NoOutcome
    /\ lastEvent = NoEvent
    /\ text = NoText
    /\ call = NoCall
    /\ runErr = NoRunErr
    /\ stopped = {}
    /\ failed = FALSE
    /\ atSend = <<>>
    /\ settled = "none"
    /\ failures = {}
    /\ entry = NoEntry

\* No activation of streamRun is being followed.
NoStreamRun ==
    /\ response = <<>>
    /\ arrived = 0
    /\ offset = 0
    /\ decoder = <<>>
    /\ buffer = <<>>
    /\ lines = <<>>
    /\ yielded = <<>>
    /\ reader = "none"
    /\ cuts = {}

\* The widget script is not loaded: the hook is used on its own.
NoWidget ==
    /\ roots = {}
    /\ document = {}
    /\ instance = 0
    /\ container = Null
    /\ controls = FALSE
    /\ autoHideSeconds = 0
    /\ mounted = FALSE
    /\ isOpen = FALSE
    /\ isVisible = TRUE
    /\ hasInteracted = FALSE
    /\ updates = <<>>
    /\ timer = "none"
    /\ nInit = 0
    /\ lastInput = "none"

\* The widget is used anonymously: getAccessToken returns null.
\* No tool has been looked up.
NoExecution == [name |-> NoId, handler |-> Absent]

\* The Chat component with its default props and nothing typed.
NoChat ==
    /\ externalTools = <<>>
    /\ suggestions = <<>>
    /\ showHeader = TRUE
    /\ input = <<>>
    /\ executed = NoExecution
    /\ detached = FALSE
    /\ suspended = 0

Init ==
    /\ HookInit /\ accessToken = Null /\ NoStreamRun /\ replay = NoReplay
    /\ NoWidget /\ NoChat

\* The widget is used anonymously or by a signed-in user.
AuthInit ==
    /\ HookInit /\ accessToken \in AccessTokens /\ NoStreamRun
    /\ replay = NoReplay /\ NoWidget /\ NoChat

\* One input is given to the hook.  A first run records it; a second run
\* takes it only if it is the next input of the first run.
Replayed(op, arg) ==
    CASE replay.mode = "off" -> replay' = replay
      [] replay.mode = "first" ->
             /\ Len(replay.script) < MaxReplaySteps
             /\ replay' = [replay EXCEPT
                              !.script = Append(@, [op |-> op, arg |-> arg])]
      [] replay.mode = "second" ->
             /\ replay.pos <= Len(replay.script)
             /\ replay.script[replay.pos].op = op
             /\ replay.script[replay.pos].arg = arg
             /\ replay' = [replay EXCEPT !.pos = @ + 1]

\* ------------------------------------------------------------ AGUIClient

\* How the creation request of chat() may fail: the response is not ok, or
\* (createThread only) the thread comes without a run.
CreateFailures == {"notok", "norun"}

\* The Error thrown by createThread or createRun for a failure of that kind.
CreateError(kind) ==
    [isError |-> TRUE,
     message |-> IF kind = "norun" THEN "Thread created but no initial run returned"
                 ELSE IF threadId = NoThread THEN "Failed to create thread: 500"
                 ELSE "Failed to create run: 500"]

\* The headers object of the three fetch calls.
RequestHeaders(token) ==
    [contentType |-> "application/json", authorization |-> Absent]

\* Faulty variant: every entry is given a toolCalls field.
FormattedMessagesAlwaysToolCalls(ms) ==
    [i \in 1..Len(ms) |->
        [id |-> "msg_" \o ToString(i - 1), role |-> ms[i].role,
         content |-> ms[i].content, toolCalls |-> ms[i].toolCalls]]

\* formattedMessages: id, role and content of every message; toolCalls on an
\* assistant message that has some, toolCallId on a tool message that has
\* one.  A field that is not set is not in the record.
FormattedMessages(ms) ==
    [i \in 1..Len(ms) |->
        [id |-> "msg_" \o ToString(i - 1), role |-> ms[i].role,
         content |-> ms[i].content]
        @@ (IF ms[i].role = "assistant" /\ Len(ms[i].toolCalls) > 0
            THEN [toolCalls |-> ms[i].toolCalls] ELSE <<>>)
        @@ (IF ms[i].role = "tool" /\ ms[i].toolCallId # Absent
            THEN [toolCallId |-> ms[i].toolCallId] ELSE <<>>)]

\* The RunAgentInput that chat() hands to streamRun, which sends it as the
\* body of the streaming request.
RunAgentInput(ids, ms) ==
    [thread_id |-> ids.thread, run_id |-> ids.run,
     messages |-> FormattedMessages(ms),
     tools |-> [i \in 1..Len(Tools) |-> [name |-> Tools[i].name]],
     context |-> <<>>, state |-> Null, forwarded_props |-> Null]

\* The ids in the response of the creation request: the server numbers the
\* threads and runs it creates; a run belongs to the thread it was created
\* under.
CreateResponse ==
    IF threadId = NoThread
    THEN [thread |-> idCount + 1, run |-> idCount + 2]
    ELSE [thread |-> threadId, run |-> idCount + 1]

\* Faulty variant: a thread is created on every entry.
ChatCreatesThreadEveryTime ==
    /\ threadId' = idCount + 1
    /\ currentRunId' = idCount + 2
    /\ idCount' = idCount + 2
    /\ entry' = [n |-> entry.n + 1, idx |-> entry.idx + 1, create |-> "thread",
                 under |-> NoThread, ok |-> TRUE,
                 returned |-> [thread |-> idCount + 1, run |-> idCount + 2],
                 streamed |-> [thread |-> idCount + 1, run |-> idCount + 2],
                 headers |-> <<RequestHeaders(accessToken),
                               RequestHeaders(accessToken)>>]

\* chat(): createThread when no thread is known, createRun otherwise; both
\* succeed, and streamRun sends its request with the locals threadId and
\* runId.
ChatCreates ==
    /\ IF threadId = NoThread
       THEN /\ threadId' = CreateResponse.thread
            /\ currentRunId' = CreateResponse.run
            /\ idCount' = idCount + 2
       ELSE /\ threadId' = threadId
            /\ currentRunId' = CreateResponse.run
            /\ idCount' = idCount + 1
    /\ entry' = [n |-> entry.n + 1, idx |-> entry.idx + 1,
                 create |-> IF threadId = NoThread THEN "thread" ELSE "run",
                 under |-> threadId, ok |-> TRUE,
                 returned |-> CreateResponse,
                 streamed |-> [thread |-> IF threadId = NoThread
                                          THEN CreateResponse.thread ELSE threadId,
                               run |-> CreateResponse.run],
                 headers |-> <<RequestHeaders(accessToken),
                               RequestHeaders(accessToken)>>]

\* Faulty variant: createThread checks for the run before it records the
\* thread id.
ChatCreateFailsBeforeRecording(kind) ==
    /\ kind = "norun" => threadId = NoThread
    /\ IF kind = "norun"
       THEN threadId' = threadId /\ idCount' = idCount + 1
       ELSE UNCHANGED <<threadId, idCount>>
    /\ UNCHANGED currentRunId
    /\ entry' = [n |-> entry.n + 1, idx |-> entry.idx + 1,
                 create |-> IF threadId = NoThread THEN "thread" ELSE "run",
                 under |-> threadId, ok |-> FALSE,
                 returned |-> [thread |-> IF kind = "norun" THEN idCount + 1
                                          ELSE NoThread,
                               run |-> NoRun],
                 streamed |-> NoIds,
                 headers |-> <<RequestHeaders(accessToken)>>]

\* chat(): the creation request fails.  A response that is not ok changes
\* nothing; a thread without a run (createThread only) has recorded the
\* thread id before it throws.
ChatCreateFails(kind) ==
    /\ kind = "norun" => threadId = NoThread
    /\ IF kind = "norun"
       THEN threadId' = idCount + 1 /\ idCount' = idCount + 1
       ELSE UNCHANGED <<threadId, idCount>>
    /\ UNCHANGED currentRunId
    /\ entry' = [n |-> entry.n + 1, idx |-> entry.idx + 1,
                 create |-> IF threadId = NoThread THEN "thread" ELSE "run",
                 under |-> threadId, ok |-> FALSE,
                 returned |-> [thread |-> IF kind = "norun" THEN idCount + 1
                                          ELSE NoThread,
                               run |-> NoRun],
                 streamed |-> NoIds,
                 headers |-> <<RequestHeaders(accessToken)>>]

\* ----------------------------------------------------------- sendMessage

\* One event is read from the stream `stream`.
Deliver(stream, type) ==
    /\ nSends + nEvents < MaxInputs
    /\ nEvents' = nEvents + 1
    /\ lastEvent' = [stream |-> stream, type |-> type]

\* The locals declared at lines 59-65, as they are before the first event.
ResetLocals ==
    /\ currentMessageId' = NoId
    /\ currentContent' = EmptyStr
    /\ currentToolCallId' = NoId
    /\ currentToolName' = NoId
    /\ currentToolArgs' = EmptyStr
    /\ pendingToolCalls' = <<>>

\* Faulty variant: the loading flag is not cleared.
SettleLeavesLoading ==
    /\ isLoading' = isLoading
    /\ pc' = "idle"
    /\ userMessage' = NoMessage
    /\ allMessages' = <<>>
    /\ ResetLocals

\* finally { setIsLoading(false) }: the activation ends.
Settle ==
    /\ isLoading' = FALSE
    /\ pc' = "idle"
    /\ userMessage' = NoMessage
    /\ allMessages' = <<>>
    /\ ResetLocals

\* The history variables record one send: they start afresh.
ForgetHistory ==
    /\ handlerCalls' = <<>>
    /\ chatCalls' = <<>>
    /\ handlerOutcome' = NoOutcome
    /\ lastEvent' = NoEvent
    /\ text' = NoText
    /\ call' = NoCall
    /\ runErr' = NoRunErr
    /\ stopped' = {}
    /\ failed' = FALSE
    /\ atSend' = <<>>
    /\ settled' = "none"
    /\ failures' = {}

\* getClient(): the client in clientRef.current, or a new client, which
\* knows no thread, when clearMessages has set the reference to null.
GetClient ==
    /\ IF detached
       THEN threadId' = NoThread /\ currentRunId' = NoRun
       ELSE UNCHANGED clientVars
    /\ detached' = FALSE

\* Faulty variant: the error slot is not cleared at the start.
SendMessageKeepsError(content) ==
    /\ nSends + nEvents < MaxInputs
    /\ nSends' = nSends + 1
    /\ isLoading' = TRUE
    /\ error' = error
    /\ uuidCount' = uuidCount + 1
    /\ LET user == Message(Uuid(uuidCount + 1), "user", content) IN
         /\ userMessage' = user
         /\ messages' = Append(messages, user)
         /\ allMessages' = Append(messages, user)
         /\ chatCalls' = <<Append(messages, user)>>
    /\ pc' = "chat"
    /\ atSend' = messages
    /\ settled' = "none"
    /\ handlerCalls' = <<>>
    /\ handlerOutcome' = NoOutcome
    /\ lastEvent' = NoEvent
    /\ text' = NoText
    /\ call' = NoCall
    /\ runErr' = NoRunErr
    /\ stopped' = {}
    /\ failed' = FALSE
    /\ ResetLocals
    /\ failures' = {}
    /\ entry' = [NoEntry EXCEPT !.n = entry.n]
    /\ GetClient
    /\ UNCHANGED <<idCount, nEvents, accessToken, streamRunVars, widgetVars>>
    /\ Replayed("SendMessage", content)

\* sendMessage(content) up to its first suspension, inside client.chat.
SendMessage(content) ==
    /\ nSends + nEvents < MaxInputs
    /\ nSends' = nSends + 1
    /\ isLoading' = TRUE
    /\ error' = Null
    /\ uuidCount' = uuidCount + 1
    /\ LET user == Message(Uuid(uuidCount + 1), "user", content) IN
         /\ userMessage' = user
         /\ messages' = Append(messages, user)
         /\ allMessages' = Append(messages, user)
         /\ chatCalls' = <<Append(messages, user)>>
    /\ pc' = "chat"
    /\ atSend' = messages
    /\ settled' = "none"
    /\ handlerCalls' = <<>>
    /\ handlerOutcome' = NoOutcome
    /\ lastEvent' = NoEvent
    /\ text' = NoText
    /\ call' = NoCall
    /\ runErr' = NoRunErr
    /\ stopped' = {}
    /\ failed' = FALSE
    /\ ResetLocals
    /\ GetClient
    /\ UNCHANGED <<idCount, nEvents>>
    /\ UNCHANGED <<streamRunVars, widgetVars>>
    /\ failures' = {}
    /\ entry' = [NoEntry EXCEPT !.n = entry.n]
    /\ UNCHANGED accessToken
    /\ Replayed("SendMessage", content)

\* client.chat resolves with the stream; the for-await loop asks for the
\* first event.
ChatResolves ==
    /\ pc = "chat"
    /\ ChatCreates
    /\ pc' = "stream"
    /\ UNCHANGED <<reactVars, sendVars, textVars, toolVars, uuidCount, nEvents,
                   nSends, histVars, lastEvent, text, call, runErr, stopped,
                   failed, atSend, settled>>
    /\ UNCHANGED <<streamRunVars, widgetVars, chatVars>>
    /\ UNCHANGED accessToken
    /\ UNCHANGED failures
    /\ Replayed("ChatResolves", <<>>)

\* client.chat rejects: the outer catch and finally.
ChatRejects(kind) ==
    /\ pc = "chat"
    /\ ChatCreateFails(kind)
    /\ error' = ErrMessage(CreateError(kind), "Unknown error")
    /\ Settle
    /\ settled' = "caught"
    /\ UNCHANGED <<messages, uuidCount, nEvents, nSends, histVars, lastEvent,
                   text, call, runErr, stopped, failed, atSend>>
    /\ UNCHANGED <<streamRunVars, widgetVars, chatVars>>
    /\ UNCHANGED accessToken
    /\ failures' = failures \cup {"create"}
    /\ Replayed("ChatRejects", kind)

\* Faulty variant: the primary stream is read on while a handler is pending
\* or a continuation stream is being consumed.
TextMessageStartUnordered(id) ==
    /\ pc \in {"stream", "tool", "contStream"}
    /\ Deliver("primary", "TEXT_MESSAGE_START")
    /\ currentMessageId' = id
    /\ currentContent' = EmptyStr
    /\ messages' = Append(messages, Message(id, "assistant", EmptyStr))
    /\ text' = [phase |-> "open", stream |-> "primary", idx |-> Len(messages) + 1,
                id |-> id, deltas |-> <<>>]
    /\ UNCHANGED <<isLoading, error, clientVars, pc, sendVars, toolVars, uuidCount,
                   idCount, nSends, histVars, call, runErr, stopped, failed, atSend,
                   settled>>
    /\ UNCHANGED <<streamRunVars, widgetVars, chatVars>>
    /\ UNCHANGED <<failures, entry, accessToken>>
    /\ Replayed("TextMessageStart", id)

\* case "TEXT_MESSAGE_START"
TextMessageStart(id) ==
    /\ pc = "stream"
    /\ Deliver("primary", "TEXT_MESSAGE_START")
    /\ currentMessageId' = id
    /\ currentContent' = EmptyStr
    /\ messages' = Append(messages, Message(id, "assistant", EmptyStr))
    /\ text' = [phase |-> "open", stream |-> "primary", idx |-> Len(messages) + 1,
                id |-> id, deltas |-> <<>>]
    /\ UNCHANGED <<isLoading, error, clientVars, pc, sendVars, toolVars, uuidCount,
                   idCount, nSends, histVars, call, runErr, stopped, failed, atSend,
                   settled>>
    /\ UNCHANGED <<streamRunVars, widgetVars, chatVars>>
    /\ UNCHANGED <<failures, entry, accessToken>>
    /\ Replayed("TextMessageStart", id)

\* case "TEXT_MESSAGE_CONTENT"
TextMessageContent(delta) ==
    /\ pc = "stream"
    /\ Deliver("primary", "TEXT_MESSAGE_CONTENT")
    /\ currentContent' = AppendContent(currentContent, delta)
    /\ messages' = SetContent(messages, currentMessageId, currentContent')
    /\ text' = IF text.phase = "open" /\ text.stream = "primary"
               THEN [text EXCEPT !.deltas = Append(@, delta)]
               ELSE NoText
    /\ UNCHANGED <<isLoading, error, clientVars, pc, sendVars, currentMessageId,
                   toolVars, uuidCount, idCount, nSends, histVars, call, runErr,
                   stopped, failed, atSend, settled>>
    /\ UNCHANGED <<streamRunVars, widgetVars, chatVars>>
    /\ UNCHANGED <<failures, entry, accessToken>>
    /\ Replayed("TextMessageContent", delta)

\* case "TEXT_MESSAGE_END"
TextMessageEnd ==
    /\ pc = "stream"
    /\ Deliver("primary", "TEXT_MESSAGE_END")
    /\ text' = IF text.phase = "open" /\ text.stream = "primary"
               THEN [text EXCEPT !.phase = "ended"]
               ELSE NoText
    /\ UNCHANGED <<reactVars, clientVars, pc, sendVars, textVars, toolVars,
                   uuidCount, idCount, nSends, histVars, call, runErr, stopped,
                   failed, atSend, settled>>
    /\ UNCHANGED <<streamRunVars, widgetVars, chatVars>>
    /\ UNCHANGED <<failures, entry, accessToken>>
    /\ Replayed("TextMessageEnd", <<>>)

\* case "TOOL_CALL_START"
ToolCallStart(s) ==
    /\ pc = "stream"
    /\ Deliver("primary", "TOOL_CALL_START")
    /\ currentToolCallId' = s.id
    /\ currentToolName' = s.name
    /\ currentToolArgs' = EmptyStr
    /\ IF currentMessageId = NoId /\ ToolsMapHas(s.name)
       THEN /\ currentMessageId' = Uuid(uuidCount + 1)
            /\ uuidCount' = uuidCount + 1
            /\ messages' = Append(messages,
                                  Message(Uuid(uuidCount + 1), "assistant", EmptyStr))
       ELSE UNCHANGED <<currentMessageId, uuidCount, messages>>
    /\ call' = [id |-> s.id, name |-> s.name, deltas |-> <<>>]
    /\ text' = NoText
    /\ UNCHANGED <<isLoading, error, clientVars, pc, sendVars, currentContent,
                   pendingToolCalls, idCount, nSends, histVars, runErr, stopped,
                   failed, atSend, settled>>
    /\ UNCHANGED <<streamRunVars, widgetVars, chatVars>>
    /\ UNCHANGED <<failures, entry, accessToken>>
    /\ Replayed("ToolCallStart", s)

\* case "TOOL_CALL_ARGS"
ToolCallArgs(delta) ==
    /\ pc = "stream"
    /\ Deliver("primary", "TOOL_CALL_ARGS")
    /\ currentToolArgs' = AppendArgs(currentToolArgs, delta)
    /\ call' = [call EXCEPT !.deltas = Append(@, delta)]
    /\ text' = NoText
    /\ UNCHANGED <<reactVars, clientVars, pc, sendVars, textVars, currentToolCallId,
                   currentToolName, pendingToolCalls, uuidCount, idCount, nSends,
                   histVars, runErr, stopped, failed, atSend, settled>>
    /\ UNCHANGED <<streamRunVars, widgetVars, chatVars>>
    /\ UNCHANGED <<failures, entry, accessToken>>
    /\ Replayed("ToolCallArgs", delta)

\* The ToolCall record built at TOOL_CALL_END.
ToolCallRecord ==
    [id |-> currentToolCallId, type |-> "function",
     function |-> [name |-> currentToolName,
                   arguments |-> ToolCallArguments(currentToolArgs)]]

\* assistantMessageWithToolCalls, for the list `pending` of tool calls.
AssistantMessageWithToolCalls(pending) ==
    [id |-> currentMessageId, role |-> "assistant", content |-> currentContent,
     toolCalls |-> pending, toolCallId |-> Absent, toolName |-> Absent]

\* case "TOOL_CALL_END", up to the suspension on the handler's promise (for
\* a client-side tool) or to the end of the case.
ToolCallEnd ==
    /\ pc = "stream"
    /\ Deliver("primary", "TOOL_CALL_END")
    /\ LET pending == Append(pendingToolCalls, ToolCallRecord) IN
         /\ pendingToolCalls' = pending
         /\ messages' = ReplaceMessage(messages, currentMessageId,
                                       AssistantMessageWithToolCalls(pending))
    /\ IF IsClientSideTool(currentToolName)
       THEN IF ~IsValidJSON(ToolCallArguments(currentToolArgs))
            THEN \* JSON.parse throws a SyntaxError: the inner catch
                 /\ error' = JSONSyntaxErrorMessage
                 /\ failures' = failures \cup {"parse"}
                 /\ UNCHANGED <<pc, histVars>>
            ELSE IF ~ToolsMapHas(currentToolName)
            THEN \* executeClientTool throws: the inner catch
                 /\ error' = "Unknown tool: " \o currentToolName
                 /\ failures' = failures \cup {"handler"}
                 /\ UNCHANGED <<pc, histVars>>
            ELSE /\ handlerCalls' = Append(handlerCalls,
                        [name |-> currentToolName,
                         args |-> JSONParse(ToolCallArguments(currentToolArgs)),
                         at |-> nEvents + 1])
                 /\ handlerOutcome' = [NoOutcome EXCEPT !.status = "pending"]
                 /\ pc' = "tool"
                 /\ UNCHANGED <<error, chatCalls, failures>>
       ELSE UNCHANGED <<error, pc, histVars, failures>>
    /\ text' = NoText
    /\ UNCHANGED <<isLoading, clientVars, sendVars, textVars, currentToolCallId,
                   currentToolName, currentToolArgs, uuidCount, idCount, nSends,
                   call, runErr, stopped, failed, atSend, settled>>
    /\ UNCHANGED <<streamRunVars, widgetVars, chatVars>>
    /\ UNCHANGED <<entry, accessToken>>
    /\ Replayed("ToolCallEnd", <<>>)

\* The handler's promise resolves: the tool-result message is appended and
\* client.chat is entered with the updated history.
HandlerResolves(result) ==
    /\ pc = "tool"
    /\ LET toolResultMessage ==
               [id |-> Uuid(uuidCount + 1), role |-> "tool",
                content |-> JSONStringify(result), toolCalls |-> <<>>,
                toolCallId |-> currentToolCallId, toolName |-> currentToolName]
       IN /\ messages' = Append(messages, toolResultMessage)
          /\ chatCalls' = Append(chatCalls,
                 UpdatedMessages(allMessages, userMessage,
                                 AssistantMessageWithToolCalls(pendingToolCalls),
                                 toolResultMessage))
    /\ uuidCount' = uuidCount + 1
    /\ handlerOutcome' = [NoOutcome EXCEPT !.status = "resolved", !.value = result]
    /\ pc' = "contChat"
    /\ UNCHANGED <<isLoading, error, clientVars, sendVars, textVars, toolVars,
                   idCount, nEvents, nSends, handlerCalls, lastEvent, text, call,
                   runErr, stopped, failed, atSend, settled>>
    /\ UNCHANGED <<streamRunVars, widgetVars, chatVars>>
    /\ UNCHANGED <<failures, entry, accessToken>>
    /\ Replayed("HandlerResolves", result)

\* The handler's promise rejects: the inner catch, then the primary loop
\* goes on.
HandlerRejects(f) ==
    /\ pc = "tool"
    /\ error' = ErrMessage(f, "Tool execution failed")
    /\ handlerOutcome' = [NoOutcome EXCEPT !.status = "rejected", !.failure = f]
    /\ failed' = TRUE
    /\ pc' = "stream"
    /\ UNCHANGED <<messages, isLoading, clientVars, sendVars, textVars, toolVars,
                   uuidCount, idCount, nEvents, nSends, handlerCalls, chatCalls,
                   lastEvent, text, call, runErr, stopped, atSend, settled>>
    /\ UNCHANGED <<streamRunVars, widgetVars, chatVars>>
    /\ failures' = failures \cup {"handler"}
    /\ UNCHANGED <<entry, accessToken>>
    /\ Replayed("HandlerRejects", f)

\* The continuation's client.chat resolves with the continuation stream.
ContChatResolves ==
    /\ pc = "contChat"
    /\ ChatCreates
    /\ pc' = "contStream"
    /\ stopped' = stopped \ {"cont"}
    /\ UNCHANGED <<reactVars, sendVars, textVars, toolVars, uuidCount, nEvents,
                   nSends, histVars, lastEvent, text, call, runErr, failed, atSend, settled>>
    /\ UNCHANGED <<streamRunVars, widgetVars, chatVars>>
    /\ UNCHANGED accessToken
    /\ UNCHANGED failures
    /\ Replayed("ContChatResolves", <<>>)

\* The continuation's client.chat rejects: the inner catch.
ContChatRejects(kind) ==
    /\ pc = "contChat"
    /\ ChatCreateFails(kind)
    /\ error' = ErrMessage(CreateError(kind), "Tool execution failed")
    /\ pc' = "stream"
    /\ UNCHANGED <<messages, isLoading, sendVars, textVars, toolVars, uuidCount,
                   nEvents, nSends, histVars, lastEvent, text, call, runErr,
                   stopped, failed, atSend, settled>>
    /\ UNCHANGED <<streamRunVars, widgetVars, chatVars>>
    /\ UNCHANGED accessToken
    /\ failures' = failures \cup {"create"}
    /\ Replayed("ContChatRejects", kind)

\* case "RUN_ERROR"
RunError(message) ==
    /\ pc = "stream"
    /\ Deliver("primary", "RUN_ERROR")
    /\ error' = message
    /\ runErr' = IF runErr.seen THEN runErr
                 ELSE [seen |-> TRUE, message |-> message, messages |-> messages]
    /\ stopped' = stopped \cup {"primary"}
    /\ text' = NoText
    /\ UNCHANGED <<messages, isLoading, clientVars, pc, sendVars, textVars,
                   toolVars, uuidCount, idCount, nSends, histVars, call, failed,
                   atSend, settled>>
    /\ UNCHANGED <<streamRunVars, widgetVars, chatVars>>
    /\ UNCHANGED <<failures, entry, accessToken>>
    /\ Replayed("RunError", message)

\* Faulty variant: an unhandled event type is surfaced as an error.
DefaultCaseSurfacesError(type) ==
    /\ pc = "stream"
    /\ Deliver("primary", type)
    /\ error' = "Unhandled AGUI event"
    /\ text' = NoText
    /\ UNCHANGED <<messages, isLoading, clientVars, pc, sendVars, textVars,
                   toolVars, uuidCount, idCount, nSends, histVars, call, runErr,
                   stopped, failed, atSend, settled>>
    /\ UNCHANGED <<streamRunVars, widgetVars, chatVars>>
    /\ UNCHANGED <<failures, entry, accessToken>>
    /\ Replayed("DefaultCase", type)

\* case "THINKING_TEXT_MESSAGE_CONTENT" and default
DefaultCase(type) ==
    /\ pc = "stream"
    /\ Deliver("primary", type)
    /\ text' = NoText
    /\ UNCHANGED <<reactVars, clientVars, pc, sendVars, textVars, toolVars,
                   uuidCount, idCount, nSends, histVars, call, runErr, stopped,
                   failed, atSend, settled>>
    /\ UNCHANGED <<streamRunVars, widgetVars, chatVars>>
    /\ UNCHANGED <<failures, entry, accessToken>>
    /\ Replayed("DefaultCase", type)

\* The primary stream ends ([DONE] or the connection closes): finally.
StreamDone ==
    /\ pc = "stream"
    /\ Settle
    /\ settled' = "completed"
    /\ UNCHANGED <<messages, error, clientVars, uuidCount, idCount, nEvents,
                   nSends, histVars, lastEvent, text, call, runErr, stopped,
                   failed, atSend>>
    /\ UNCHANGED <<streamRunVars, widgetVars, chatVars>>
    /\ UNCHANGED <<failures, entry, accessToken>>
    /\ Replayed("StreamDone", <<>>)

\* The streaming request or a read of the primary stream fails: the outer
\* catch and finally.
StreamRejects(f) ==
    /\ pc = "stream"
    /\ f.when = "request" => lastEvent = NoEvent
    /\ error' = ErrMessage(f, "Unknown error")
    /\ Settle
    /\ settled' = "caught"
    /\ UNCHANGED <<messages, clientVars, uuidCount, idCount, nEvents, nSends,
                   histVars, lastEvent, text, call, runErr, stopped, failed,
                   atSend>>
    /\ UNCHANGED <<streamRunVars, widgetVars, chatVars>>
    /\ failures' = failures \cup {"stream"}
    /\ UNCHANGED <<entry, accessToken>>
    /\ Replayed("StreamRejects", f)

\* ------------------------------------------------ the continuation stream

\* continuation case "TEXT_MESSAGE_START"
ContTextMessageStart(id) ==
    /\ pc = "contStream"
    /\ Deliver("cont", "TEXT_MESSAGE_START")
    /\ currentMessageId' = id
    /\ currentContent' = EmptyStr
    /\ messages' = Append(messages, Message(id, "assistant", EmptyStr))
    /\ text' = [phase |-> "open", stream |-> "cont", idx |-> Len(messages) + 1,
                id |-> id, deltas |-> <<>>]
    /\ UNCHANGED <<isLoading, error, clientVars, pc, sendVars, toolVars, uuidCount,
                   idCount, nSends, histVars, call, runErr, stopped, failed, atSend, settled>>
    /\ UNCHANGED <<streamRunVars, widgetVars, chatVars>>
    /\ UNCHANGED <<failures, entry, accessToken>>
    /\ Replayed("ContTextMessageStart", id)

\* continuation case "TEXT_MESSAGE_CONTENT"
ContTextMessageContent(delta) ==
    /\ pc = "contStream"
    /\ Deliver("cont", "TEXT_MESSAGE_CONTENT")
    /\ currentContent' = AppendContent(currentContent, delta)
    /\ messages' = SetContent(messages, currentMessageId, currentContent')
    /\ text' = IF text.phase = "open" /\ text.stream = "cont"
               THEN [text EXCEPT !.deltas = Append(@, delta)]
               ELSE NoText
    /\ UNCHANGED <<isLoading, error, clientVars, pc, sendVars, currentMessageId,
                   toolVars, uuidCount, idCount, nSends, histVars, call, runErr,
                   stopped, failed, atSend, settled>>
    /\ UNCHANGED <<streamRunVars, widgetVars, chatVars>>
    /\ UNCHANGED <<failures, entry, accessToken>>
    /\ Replayed("ContTextMessageContent", delta)

\* continuation case "TEXT_MESSAGE_END"
ContTextMessageEnd ==
    /\ pc = "contStream"
    /\ Deliver("cont", "TEXT_MESSAGE_END")
    /\ text' = IF text.phase = "open" /\ text.stream = "cont"
               THEN [text EXCEPT !.phase = "ended"]
               ELSE NoText
    /\ UNCHANGED <<reactVars, clientVars, pc, sendVars, textVars, toolVars,
                   uuidCount, idCount, nSends, histVars, call, runErr, stopped,
                   failed, atSend, settled>>
    /\ UNCHANGED <<streamRunVars, widgetVars, chatVars>>
    /\ UNCHANGED <<failures, entry, accessToken>>
    /\ Replayed("ContTextMessageEnd", <<>>)

\* continuation case "RUN_ERROR"
ContRunError(message) ==
    /\ pc = "contStream"
    /\ Deliver("cont", "RUN_ERROR")
    /\ error' = message
    /\ runErr' = IF runErr.seen THEN runErr
                 ELSE [seen |-> TRUE, message |-> message, messages |-> messages]
    /\ stopped' = stopped \cup {"cont"}
    /\ text' = NoText
    /\ UNCHANGED <<messages, isLoading, clientVars, pc, sendVars, textVars,
                   toolVars, uuidCount, idCount, nSends, histVars, call, failed,
                   atSend, settled>>
    /\ UNCHANGED <<streamRunVars, widgetVars, chatVars>>
    /\ UNCHANGED <<failures, entry, accessToken>>
    /\ Replayed("ContRunError", message)

\* Faulty variant: an event of the continuation stream enters the transport
\* again.
ContDefaultCaseEntersTransport(type) ==
    /\ pc = "contStream"
    /\ Deliver("cont", type)
    /\ text' = NoText
    /\ chatCalls' = Append(chatCalls, allMessages)
    /\ UNCHANGED <<reactVars, clientVars, pc, sendVars, textVars, toolVars,
                   uuidCount, idCount, nSends, handlerCalls, handlerOutcome, call,
                   runErr, stopped, failed, atSend, settled>>
    /\ UNCHANGED <<streamRunVars, widgetVars, chatVars>>
    /\ UNCHANGED <<failures, entry, accessToken>>
    /\ Replayed("ContDefaultCase", type)

\* continuation default case
ContDefaultCase(type) ==
    /\ pc = "contStream"
    /\ Deliver("cont", type)
    /\ text' = NoText
    /\ UNCHANGED <<reactVars, clientVars, pc, sendVars, textVars, toolVars,
                   uuidCount, idCount, nSends, histVars, call, runErr, stopped,
                   failed, atSend, settled>>
    /\ UNCHANGED <<streamRunVars, widgetVars, chatVars>>
    /\ UNCHANGED <<failures, entry, accessToken>>
    /\ Replayed("ContDefaultCase", type)

\* The continuation stream ends: the primary loop goes on.
ContStreamDone ==
    /\ pc = "contStream"
    /\ pc' = "stream"
    /\ text' = NoText
    /\ UNCHANGED <<reactVars, clientVars, sendVars, textVars, toolVars, uuidCount,
                   idCount, nEvents, nSends, histVars, lastEvent, call, runErr,
                   stopped, failed, atSend, settled>>
    /\ UNCHANGED <<streamRunVars, widgetVars, chatVars>>
    /\ UNCHANGED <<failures, entry, accessToken>>
    /\ Replayed("ContStreamDone", <<>>)

\* The continuation's streaming request or a read of it fails: the inner
\* catch, then the primary loop goes on.
ContStreamRejects(f) ==
    /\ pc = "contStream"
    /\ f.when = "request" => lastEvent.stream = "primary"
    /\ error' = ErrMessage(f, "Tool execution failed")
    /\ pc' = "stream"
    /\ text' = NoText
    /\ UNCHANGED <<messages, isLoading, clientVars, sendVars, textVars, toolVars,
                   uuidCount, idCount, nEvents, nSends, histVars, lastEvent, call,
                   runErr, stopped, failed, atSend, settled>>
    /\ UNCHANGED <<streamRunVars, widgetVars, chatVars>>
    /\ failures' = failures \cup {"stream"}
    /\ UNCHANGED <<entry, accessToken>>
    /\ Replayed("ContStreamRejects", f)

\* ---------------------------------------------------------- clearMessages

\* Faulty variant: the list is emptied but the client, with its thread and
\* run ids, is kept.
ClearMessagesKeepsClient ==
    /\ messages' = <<>>
    /\ UNCHANGED <<threadId, currentRunId>>
    /\ ForgetHistory
    /\ UNCHANGED <<isLoading, error, pc, sendVars, textVars, toolVars, uuidCount,
                   idCount, nEvents, nSends>>
    /\ UNCHANGED <<streamRunVars, widgetVars, chatVars>>
    /\ UNCHANGED accessToken
    /\ entry' = NoEntry
    /\ UNCHANGED replay

\* setMessages([]); clientRef.current = null: the next getClient() builds a
\* client that knows no thread.
ClearMessages ==
    /\ messages' = <<>>
    /\ threadId' = NoThread
    /\ currentRunId' = NoRun
    /\ ForgetHistory
    /\ UNCHANGED <<isLoading, error, pc, sendVars, textVars, toolVars, uuidCount,
                   idCount, nEvents, nSends>>
    /\ UNCHANGED <<streamRunVars, widgetVars, chatVars>>
    /\ UNCHANGED accessToken
    /\ entry' = NoEntry
    /\ UNCHANGED replay

\* ----------------------------------------------------------- specification

\* The steps of a send in flight: a promise it awaits settles, or its stream
\* delivers an event or ends.
InFlight ==
    \/ ChatResolves
    \/ \E kind \in CreateFailures : ChatRejects(kind)
    \/ \E id \in MessageIds : TextMessageStart(id)
    \/ \E delta \in TextDeltas : TextMessageContent(delta)
    \/ TextMessageEnd
    \/ \E s \in ToolStarts : ToolCallStart(s)
    \/ \E delta \in ArgDeltas : ToolCallArgs(delta)
    \/ ToolCallEnd
    \/ \E result \in HandlerResults : HandlerResolves(result)
    \/ \E f \in HandlerFailures : HandlerRejects(f)
    \/ ContChatResolves
    \/ \E kind \in CreateFailures : ContChatRejects(kind)
    \/ \E message \in RunErrorMessages : RunError(message)
    \/ \E type \in UnhandledTypes : DefaultCase(type)
    \/ StreamDone
    \/ \E f \in StreamFailures : StreamRejects(f)
    \/ \E id \in MessageIds : ContTextMessageStart(id)
    \/ \E delta \in TextDeltas : ContTextMessageContent(delta)
    \/ ContTextMessageEnd
    \/ \E message \in RunErrorMessages : ContRunError(message)
    \/ \E type \in ContUnhandledTypes : ContDefaultCase(type)
    \/ ContStreamDone
    \/ \E f \in StreamFailures : ContStreamRejects(f)

\* The caller discipline of the hook: sendMessage and clearMessages are
\* called only while no send is in flight.
Next ==
    \/ /\ pc = "idle"
       /\ \E content \in UserInputs : SendMessage(content)
       /\ UNCHANGED chatRest
    \/ pc = "idle" /\ ClearMessages
    \/ InFlight

Spec == Init /\ [][Next]_vars

\* Every promise a send awaits settles and every stream ends: a send in
\* flight takes its next step.
FairSpec == Spec /\ WF_vars(InFlight)

\* The same hook, mounted with a credential provider.
AuthSpec == AuthInit /\ [][Next]_vars

\* The component that uses the hook is unmounted and mounted again: every
\* useState and useRef starts from its initial value.  crypto.randomUUID is
\* not part of the hook: it goes on returning identifiers never returned
\* before.  The second run is given the inputs of the first.
Remount ==
    /\ pc = "idle"
    /\ nSends >= 1
    /\ replay.mode = "first"
    /\ replay' = [mode |-> "second", script |-> replay.script, pos |-> 1,
                  first |-> messages]
    /\ messages' = <<>>
    /\ isLoading' = FALSE
    /\ error' = Null
    /\ threadId' = NoThread
    /\ currentRunId' = NoRun
    /\ userMessage' = NoMessage
    /\ allMessages' = <<>>
    /\ ResetLocals
    /\ ForgetHistory
    /\ entry' = NoEntry
    /\ nEvents' = 0
    /\ nSends' = 0
    /\ UNCHANGED <<pc, uuidCount, idCount, accessToken>>
    /\ UNCHANGED <<streamRunVars, widgetVars, chatVars>>

\* A first run of the hook, whose inputs are recorded.
ReplayInit ==
    /\ HookInit
    /\ accessToken = Null
    /\ NoStreamRun
    /\ replay = [NoReplay EXCEPT !.mode = "first"]
    /\ NoWidget
    /\ NoChat

\* One sendMessage from the fresh state, its steps, and the remount that
\* starts the second run.
ReplayNext ==
    \/ /\ pc = "idle" /\ nSends = 0
       /\ \E content \in UserInputs : SendMessage(content)
       /\ UNCHANGED chatRest
    \/ InFlight
    \/ Remount

ReplaySpec == ReplayInit /\ [][ReplayNext]_vars

\* --------------------------------------------------------------- streamRun

Newline == "\n"

\* "data: "
DataPrefix == <<"d", "a", "t", "a", ":", " ">>

\* "[DONE]"
DoneToken == <<"[", "D", "O", "N", "E", "]">>

\* UTF-8: the two bytes of a two-byte character, the character they encode,
\* and U+FFFD, which replaces a malformed sequence.  Every other byte is an
\* ASCII character and decodes to itself.
LeadByte == "0xC3"
ContinuationByte == "0xA9"
TwoByteChar == "U+00E9"
ReplacementChar == "U+FFFD"

\* decoder.decode(value, { stream: true }) for a decoder holding back the
\* bytes `held`: the characters decoded, and the bytes held back for the
\* next call.
RECURSIVE DecodeStream(_, _)
DecodeStream(held, bytes) ==
    IF bytes = <<>> THEN [chars |-> <<>>, held |-> held]
    ELSE IF held # <<>>
    THEN IF Head(bytes) = ContinuationByte
         THEN LET r == DecodeStream(<<>>, Tail(bytes))
              IN [r EXCEPT !.chars = <<TwoByteChar>> \o @]
         ELSE LET r == DecodeStream(<<>>, bytes)
              IN [r EXCEPT !.chars = <<ReplacementChar>> \o @]
    ELSE IF Head(bytes) = LeadByte THEN DecodeStream(<<LeadByte>>, Tail(bytes))
    ELSE LET r == DecodeStream(<<>>, Tail(bytes))
         IN [r EXCEPT !.chars = <<IF Head(bytes) = ContinuationByte
                                    THEN ReplacementChar ELSE Head(bytes)>> \o @]

\* s.split("\n")
RECURSIVE Split(_)
Split(s) ==
    IF \A i \in 1..Len(s) : s[i] # Newline THEN <<s>>
    ELSE LET i == CHOOSE i \in 1..Len(s) :
                     s[i] = Newline /\ \A j \in 1..(i - 1) : s[j] # Newline
         IN <<SubSeq(s, 1, i - 1)>> \o Split(SubSeq(s, i + 1, Len(s)))

\* The array after lines.pop().
AllButLast(pieces) == SubSeq(pieces, 1, Len(pieces) - 1)

\* Faulty variant: the unfinished line is not carried to the next chunk.
RemainderDropped(pieces) == <<>>

\* lines.pop() || ""
Remainder(pieces) == pieces[Len(pieces)]

\* line.startsWith(prefix)
StartsWith(line, prefix) ==
    Len(line) >= Len(prefix) /\ SubSeq(line, 1, Len(prefix)) = prefix

\* line.slice(n)
Slice(line, n) == SubSeq(line, n + 1, Len(line))

\* What the body of the for-of loop does with one line: it returns, yields
\* the parsed payload, or goes on to the next line.
LineOutcome(line) ==
    IF ~StartsWith(line, DataPrefix) THEN "skip"
    ELSE IF Slice(line, 6) = DoneToken THEN "return"
    ELSE IF IsValidJSON(Slice(line, 6)) THEN "yield"
    ELSE "skip"

\* The lines a response is made of, as bytes: two well-formed events (one
\* with a two-byte character), a malformed payload, the terminator, and a
\* line without the "data: " prefix.
ResponseLines ==
    {DataPrefix \o <<"1">>,
     DataPrefix \o <<Quote, LeadByte, ContinuationByte, Quote>>,
     DataPrefix \o <<"{">>,
     DataPrefix \o DoneToken,
     <<"d", "a", "t", "a", ":", "1">>}

\* The bytes of the lines ls, each followed by a newline except, when
\* `terminated` is false, the last.
RECURSIVE Body(_, _)
Body(ls, terminated) ==
    IF ls = <<>> THEN <<>>
    ELSE IF Len(ls) = 1 /\ ~terminated THEN ls[1]
    ELSE ls[1] \o <<Newline>> \o Body(Tail(ls), terminated)

\* The response bodies the server may send.
Responses ==
    {Body(ls, terminated) :
        ls \in UNION {[1..n -> ResponseLines] : n \in 1..MaxLines},
        terminated \in BOOLEAN}

\* streamRun has sent its request and got a response with a body.
StreamRunInit ==
    /\ HookInit
    /\ accessToken = Null
    /\ response \in Responses
    /\ arrived = 0
    /\ offset = 0
    /\ decoder = <<>>
    /\ buffer = <<>>
    /\ lines = <<>>
    /\ yielded = <<>>
    /\ reader = "read"
    /\ cuts = {}
    /\ replay = NoReplay
    /\ NoWidget
    /\ NoChat

\* The network delivers the next k bytes of the body as one chunk after the
\* generator has ended: nobody reads it.
StreamArrive(k) ==
    /\ reader = "done"
    /\ arrived = offset
    /\ k \in 1..(Len(response) - arrived)
    /\ arrived' = arrived + k
    /\ UNCHANGED <<hookVars, widgetVars, chatVars, response, offset, decoder, buffer, lines, yielded,
                   reader, cuts>>

\* Where the boundary after the chunk just read has fallen: inside a
\* two-byte character, inside the "data: " prefix.
CutKinds(held, rest) ==
    {k \in {"char", "prefix"} :
        \/ k = "char" /\ held # <<>>
        \/ k = "prefix" /\ rest # <<>> /\ Len(rest) < Len(DataPrefix)
                        /\ StartsWith(DataPrefix, rest)}

\* The network delivers the next k bytes of the body as one chunk and the
\* pending reader.read() resolves with it: lines 123-128.
ReaderRead(k) ==
    /\ reader = "read"
    /\ k \in 1..(Len(response) - offset)
    /\ \E d \in {DecodeStream(decoder, SubSeq(response, offset + 1, offset + k))} :
       \E pieces \in {Split(buffer \o d.chars)} :
          /\ decoder' = d.held
          /\ lines' = AllButLast(pieces)
          /\ buffer' = Remainder(pieces)
          /\ reader' = IF Len(pieces) > 1 THEN "line" ELSE "read"
          /\ cuts' = IF offset + k < Len(response)
                     THEN cuts \cup CutKinds(d.held, Remainder(pieces))
                     ELSE cuts
    /\ offset' = offset + k
    /\ arrived' = offset + k
    /\ UNCHANGED <<hookVars, widgetVars, chatVars, response, yielded>>

\* Faulty variant: at the end of the body the text left in the buffer is
\* handled as one more line.
ReaderDoneFlushesBuffer ==
    /\ reader = "read"
    /\ offset = Len(response)
    /\ reader' = "eof"
    /\ yielded' = IF LineOutcome(buffer) = "yield"
                  THEN Append(yielded, JSONParse(Slice(buffer, 6)))
                  ELSE yielded
    /\ UNCHANGED <<hookVars, widgetVars, chatVars, response, arrived, offset, decoder, buffer, lines,
                   cuts>>

\* reader.read() resolves with done: the loop is left and the generator
\* returns.
ReaderDone ==
    /\ reader = "read"
    /\ offset = Len(response)
    /\ reader' = "eof"
    /\ UNCHANGED <<hookVars, widgetVars, chatVars, response, arrived, offset, decoder, buffer, lines,
                   yielded, cuts>>

\* reader.read() rejects: the generator throws.
ReaderFails ==
    /\ reader = "read"
    /\ reader' = "threw"
    /\ UNCHANGED <<hookVars, widgetVars, chatVars, response, arrived, offset, decoder, buffer, lines,
                   yielded, cuts>>

\* The for-of loop goes to its next line, or ends and the while loop reads
\* again.
NextLine ==
    /\ lines' = Tail(lines)
    /\ reader' = IF Tail(lines) = <<>> THEN "read" ELSE "line"

\* The line carries a payload that parses: it is yielded.
YieldEvent ==
    /\ reader = "line"
    /\ LineOutcome(Head(lines)) = "yield"
    /\ yielded' = Append(yielded, JSONParse(Slice(Head(lines), 6)))
    /\ NextLine
    /\ UNCHANGED <<hookVars, widgetVars, chatVars, response, arrived, offset, decoder, buffer, cuts>>

\* Faulty variant: a line that yields nothing makes the generator throw.
SkipLineThrows ==
    /\ reader = "line"
    /\ LineOutcome(Head(lines)) = "skip"
    /\ reader' = "threw"
    /\ UNCHANGED <<hookVars, widgetVars, chatVars, response, arrived, offset, decoder, buffer, lines,
                   yielded, cuts>>

\* The line has no "data: " prefix, or its payload does not parse (the
\* empty catch): nothing is yielded.
SkipLine ==
    /\ reader = "line"
    /\ LineOutcome(Head(lines)) = "skip"
    /\ NextLine
    /\ UNCHANGED <<hookVars, widgetVars, chatVars, response, arrived, offset, decoder, buffer, yielded,
                   cuts>>

\* Faulty variant: the terminator is taken for one more line to skip.
ReturnOnDoneSkips ==
    /\ reader = "line"
    /\ LineOutcome(Head(lines)) = "return"
    /\ NextLine
    /\ UNCHANGED <<hookVars, widgetVars, chatVars, response, arrived, offset, decoder, buffer, yielded,
                   cuts>>

\* The payload is "[DONE]": the generator returns.
ReturnOnDone ==
    /\ reader = "line"
    /\ LineOutcome(Head(lines)) = "return"
    /\ reader' = "done"
    /\ lines' = <<>>
    /\ UNCHANGED <<hookVars, widgetVars, chatVars, response, arrived, offset, decoder, buffer, yielded,
                   cuts>>

StreamRunNext ==
    \/ \E k \in 1..Len(response) : ReaderRead(k)
    \/ \E k \in 1..Len(response) : StreamArrive(k)
    \/ ReaderDone
    \/ ReaderFails
    \/ YieldEvent
    \/ SkipLine
    \/ ReturnOnDone

StreamRunSpec == StreamRunInit /\ [][StreamRunNext]_vars

\* ------------------------------------------------------------------ widget

\* config.containerId || "soliplex-chat-widget"
DefaultContainerId == "soliplex-chat-widget"

\* What the page passes to init(): containerId absent or the id of an
\* element of its own, autoHideSeconds absent (<<>>) or given.
WidgetConfigs ==
    [containerId : {Absent, "host"}, autoHideSeconds : {<<>>, <<0>>, <<15>>}]

ContainerId(config) ==
    IF config.containerId = Absent THEN DefaultContainerId ELSE config.containerId

\* const { autoHideSeconds = 0 } = config
AutoHideSeconds(config) ==
    IF config.autoHideSeconds = <<>> THEN 0 ELSE config.autoHideSeconds[1]

\* The state of ChatWidget after one queued update: open() and handleOpen
\* call setIsOpen(true), setHasInteracted(true), setIsVisible(true); close()
\* and handleClose call setIsOpen(false); the timer calls
\* setIsVisible(false); the mouse-move listener calls setIsVisible(true).
Apply(st, u) ==
    CASE u = "open" -> [isOpen |-> TRUE, isVisible |-> TRUE, hasInteracted |-> TRUE]
      [] u = "close" -> [st EXCEPT !.isOpen = FALSE]
      [] u = "hide" -> [st EXCEPT !.isVisible = FALSE]
      [] u = "reveal" -> [st EXCEPT !.isVisible = TRUE]

RECURSIVE ApplyAll(_, _)
ApplyAll(st, us) ==
    IF us = <<>> THEN st ELSE ApplyAll(Apply(st, Head(us)), Tail(us))

\* The auto-hide effect: it arms the timer when autoHideSeconds > 0, the
\* user has not interacted and the panel is closed.
AutoHideArmed(st) ==
    IF autoHideSeconds > 0 /\ ~st.hasInteracted /\ ~st.isOpen THEN "armed" ELSE "none"

\* The effect after a render: when hasInteracted or isOpen changed, its
\* cleanup clears the timer and it runs again; otherwise nothing happens.
AutoHideEffect(old, new) ==
    IF <<old.hasInteracted, old.isOpen>> # <<new.hasInteracted, new.isOpen>>
    THEN AutoHideArmed(new)
    ELSE timer

WidgetState == [isOpen |-> isOpen, isVisible |-> isVisible, hasInteracted |-> hasInteracted]

\* React renders with the queued updates `us`, in order, and runs the
\* effects.
Render(us) ==
    /\ isOpen' = ApplyAll(WidgetState, us).isOpen
    /\ isVisible' = ApplyAll(WidgetState, us).isVisible
    /\ hasInteracted' = ApplyAll(WidgetState, us).hasInteracted
    /\ timer' = AutoHideEffect(WidgetState, ApplyAll(WidgetState, us))
    /\ updates' = <<>>

\* The script is loaded: window.SoliplexChat has its four functions and no
\* instance.  The page may have an element of its own for the widget.
WidgetLoaded ==
    /\ HookInit /\ accessToken = Null /\ NoStreamRun /\ replay = NoReplay
    /\ NoChat
    /\ roots = {}
    /\ document \in {{}, {"host"}}
    /\ instance = 0
    /\ container = Null
    /\ controls = FALSE
    /\ autoHideSeconds = 0
    /\ mounted = FALSE
    /\ isOpen = FALSE
    /\ isVisible = TRUE
    /\ hasInteracted = FALSE
    /\ updates = <<>>
    /\ timer = "none"
    /\ nInit = 0
    /\ lastInput = "none"

\* Faulty variant: init() does not look for an existing instance.
initAlways(config) ==
    /\ lastInput' = "init"
    /\ nInit < MaxInits
    /\ nInit' = nInit + 1
    /\ instance' = nInit + 1
    /\ roots' = roots \cup {nInit + 1}
    /\ container' = ContainerId(config)
    /\ document' = document \cup {ContainerId(config)}
    /\ controls' = FALSE
    /\ autoHideSeconds' = AutoHideSeconds(config)
    /\ mounted' = FALSE
    /\ isOpen' = FALSE
    /\ isVisible' = TRUE
    /\ hasInteracted' = FALSE
    /\ updates' = <<>>
    /\ timer' = "none"
    /\ UNCHANGED <<hookVars, streamRunVars, chatVars>>

\* init(config): nothing when an instance exists; otherwise the container is
\* found or created, a root is created and asked to render, and the instance
\* is stored with controls undefined (nothing is mounted yet).
init(config) ==
    /\ lastInput' = "init"
    /\ IF instance # 0
       THEN UNCHANGED <<roots, document, instance, container, controls, autoHideSeconds,
                        mounted, isOpen, isVisible, hasInteracted, updates,
                        timer, nInit>>
       ELSE /\ nInit < MaxInits
            /\ nInit' = nInit + 1
            /\ instance' = nInit + 1
            /\ roots' = roots \cup {nInit + 1}
            /\ container' = ContainerId(config)
            /\ document' = document \cup {ContainerId(config)}
            /\ controls' = FALSE
            /\ autoHideSeconds' = AutoHideSeconds(config)
            /\ mounted' = FALSE
            /\ isOpen' = FALSE
            /\ isVisible' = TRUE
            /\ hasInteracted' = FALSE
            /\ updates' = <<>>
            /\ timer' = "none"
    /\ UNCHANGED <<hookVars, streamRunVars, chatVars>>

\* React mounts the tree: ChatWidget starts closed and visible, the auto-hide
\* effect runs, and the effect of WidgetWrapper hands the controls to the
\* instance.
Mount ==
    /\ instance # 0
    /\ ~mounted
    /\ mounted' = TRUE
    /\ isOpen' = FALSE
    /\ isVisible' = TRUE
    /\ hasInteracted' = FALSE
    /\ updates' = <<>>
    /\ timer' = AutoHideArmed([isOpen |-> FALSE, isVisible |-> TRUE,
                               hasInteracted |-> FALSE])
    /\ controls' = TRUE
    /\ UNCHANGED <<roots, document, instance, container, autoHideSeconds, nInit, lastInput>>
    /\ UNCHANGED <<hookVars, streamRunVars, chatVars>>

\* destroy(): nothing without an instance; otherwise the root is unmounted
\* (the effects are cleaned up), the container is removed and the instance
\* is forgotten.
destroy ==
    /\ lastInput' = "destroy"
    /\ IF instance = 0
       THEN UNCHANGED <<roots, document, instance, container, controls, autoHideSeconds,
                        mounted, isOpen, isVisible, hasInteracted, updates, timer>>
       ELSE /\ roots' = roots \ {instance}
            /\ document' = document \ {container}
            /\ instance' = 0
            /\ container' = Null
            /\ controls' = FALSE
            /\ autoHideSeconds' = 0
            /\ mounted' = FALSE
            /\ isOpen' = FALSE
            /\ isVisible' = TRUE
            /\ hasInteracted' = FALSE
            /\ updates' = <<>>
            /\ timer' = "none"
    /\ UNCHANGED nInit
    /\ UNCHANGED <<hookVars, streamRunVars, chatVars>>

\* open(): _instance?.controls?.open() queues the three state updates of
\* ChatWidget's open; without an instance or without controls nothing
\* happens.
open ==
    /\ lastInput' = "open"
    /\ IF instance # 0 /\ controls
       THEN /\ Len(updates) < MaxUpdates
            /\ updates' = Append(updates, "open")
       ELSE UNCHANGED updates
    /\ UNCHANGED <<roots, document, instance, container, controls, autoHideSeconds,
                   mounted, isOpen, isVisible, hasInteracted, timer, nInit>>
    /\ UNCHANGED <<hookVars, streamRunVars, chatVars>>

\* close(): _instance?.controls?.close().
close ==
    /\ lastInput' = "close"
    /\ IF instance # 0 /\ controls
       THEN /\ Len(updates) < MaxUpdates
            /\ updates' = Append(updates, "close")
       ELSE UNCHANGED updates
    /\ UNCHANGED <<roots, document, instance, container, controls, autoHideSeconds,
                   mounted, isOpen, isVisible, hasInteracted, timer, nInit>>
    /\ UNCHANGED <<hookVars, streamRunVars, chatVars>>

\* The user clicks the bubble of the closed widget.  React handles a click
\* at once: the queued updates and the click's are rendered together.
handleOpen ==
    /\ mounted
    /\ isVisible
    /\ ~isOpen
    /\ lastInput' = "click"
    /\ Render(Append(updates, "open"))
    /\ UNCHANGED <<roots, document, instance, container, controls, autoHideSeconds,
                   mounted, nInit>>
    /\ UNCHANGED <<hookVars, streamRunVars, chatVars>>

\* The user clicks the bubble or the close button of the open panel.
handleClose ==
    /\ mounted
    /\ isOpen
    /\ lastInput' = "click"
    /\ Render(Append(updates, "close"))
    /\ UNCHANGED <<roots, document, instance, container, controls, autoHideSeconds,
                   mounted, nInit>>
    /\ UNCHANGED <<hookVars, streamRunVars, chatVars>>

\* The auto-hide timer, armed by the last run of the effect and not cleared
\* since, fires: setIsVisible(false) is queued.
TimerFires ==
    /\ timer = "armed"
    /\ Len(updates) < MaxUpdates
    /\ timer' = "none"
    /\ updates' = Append(updates, "hide")
    /\ UNCHANGED <<roots, document, instance, container, controls, autoHideSeconds,
                   mounted, isOpen, isVisible, hasInteracted, nInit, lastInput>>
    /\ UNCHANGED <<hookVars, streamRunVars, chatVars>>

\* The mouse moves near the corner while the listener of the hidden bubble
\* is attached: setIsVisible(true) is queued.
handleMouseMove ==
    /\ mounted
    /\ ~isVisible
    /\ ~isOpen
    /\ Len(updates) < MaxUpdates
    /\ updates' = Append(updates, "reveal")
    /\ UNCHANGED <<roots, document, instance, container, controls, autoHideSeconds,
                   mounted, isOpen, isVisible, hasInteracted, timer, nInit,
                   lastInput>>
    /\ UNCHANGED <<hookVars, streamRunVars, chatVars>>

\* React renders the updates queued by calls made outside its own event
\* handlers.
Commit ==
    /\ mounted
    /\ updates # <<>>
    /\ Render(updates)
    /\ UNCHANGED <<roots, document, instance, container, controls, autoHideSeconds,
                   mounted, nInit, lastInput>>
    /\ UNCHANGED <<hookVars, streamRunVars, chatVars>>

WidgetNext ==
    \/ \E config \in WidgetConfigs : init(config)
    \/ Mount
    \/ destroy
    \/ open
    \/ close
    \/ handleOpen
    \/ handleClose
    \/ TimerFires
    \/ handleMouseMove
    \/ Commit

WidgetSpec == WidgetLoaded /\ [][WidgetNext]_vars

\* ---------------------------------------------------------------- registry

\* External tools a page may pass to Chat, at most.
MaxExternalTools == 2

\* useClientTools(): the built-in tools, each with its handler.
builtInTools == <<[name |-> "get_current_time", handler |-> "builtIn"]>>

\* The tools a page may pass as externalTools: a name, which may be that of
\* a built-in tool, and a handler.
ExternalTools ==
    [name : {"get_current_time", "search", "lookup"}, handler : {"ext1", "ext2"}]

\* The names executeClientTool may be given.
ToolNames == {"get_current_time", "search", "lookup", "unknown"}

\* tools = [...builtInTools, ...externalTools]
CombinedTools(external) == builtInTools \o external

\* Faulty variant: the first tool registered under a name is kept.
RECURSIVE ToolsMapFirstWins(_)
ToolsMapFirstWins(tools) ==
    IF tools = <<>> THEN <<>>
    ELSE (Head(tools).name :> Head(tools)) @@ ToolsMapFirstWins(Tail(tools))

\* new Map(tools.map(t => [t.name, t])): the entries are set in order, and
\* setting a key that is in the map replaces its value.
RECURSIVE ToolsMap(_)
ToolsMap(tools) ==
    IF tools = <<>> THEN <<>>
    ELSE (tools[Len(tools)].name :> tools[Len(tools)])
         @@ ToolsMap(SubSeq(tools, 1, Len(tools) - 1))

\* A page has mounted Chat with some external tools.
RegistryInit ==
    /\ HookInit /\ accessToken = Null /\ NoStreamRun /\ replay = NoReplay
    /\ NoWidget
    /\ externalTools \in UNION {[1..n -> ExternalTools] : n \in 0..MaxExternalTools}
    /\ suggestions = <<>>
    /\ showHeader = TRUE
    /\ input = <<>>
    /\ executed = NoExecution
    /\ detached = FALSE
    /\ suspended = 0

\* executeClientTool(toolName, args): the handler of the tool the map holds
\* under the name is called, or 'Unknown tool' is thrown.
executeClientTool(toolName) ==
    /\ \E toolsMap \in {ToolsMap(CombinedTools(externalTools))} :
          executed' = [name |-> toolName,
                       handler |-> IF toolName \in DOMAIN toolsMap
                                   THEN toolsMap[toolName].handler
                                   ELSE "Unknown tool"]
    /\ UNCHANGED <<hookVars, streamRunVars, widgetVars>>
    /\ UNCHANGED <<externalTools, suggestions, showHeader, input, detached, suspended>>

RegistryNext == \E toolName \in ToolNames : executeClientTool(toolName)

RegistrySpec == RegistryInit /\ [][RegistryNext]_vars

\* -------------------------------------------------------------------- Chat

\* Activations of sendMessage that are started while another one is in
\* flight and followed to their suspension on client.chat, at most.
MaxSuspended == 1

\* Inputs of one behaviour of a Chat that is followed gesture by gesture:
\* the sendMessage calls that are followed plus the events the server
\* delivers.
MaxChatInputs == 4

\* What the user may type, and the suggestions a page may pass.
InputTexts == {<<" ">>, <<" ", "h">>}
SuggestionLists == {<<>>, << <<"h">> >>}

IsWhitespace(c) == c \in {" ", "\n"}

\* input.trim()
RECURSIVE Trim(_)
Trim(str) ==
    IF str = <<>> THEN <<>>
    ELSE IF IsWhitespace(Head(str)) THEN Trim(Tail(str))
    ELSE IF IsWhitespace(str[Len(str)]) THEN Trim(SubSeq(str, 1, Len(str) - 1))
    ELSE str

\* A page has mounted Chat: its props, and the initial state of the
\* component and of the hook.
ChatInit ==
    /\ HookInit /\ accessToken = Null /\ NoStreamRun /\ replay = NoReplay
    /\ NoWidget
    /\ externalTools = <<>>
    /\ suggestions \in SuggestionLists
    /\ showHeader \in BOOLEAN
    /\ input = <<>>
    /\ executed = NoExecution
    /\ detached = FALSE
    /\ suspended = 0

\* onChange of the textarea, which is disabled while isLoading.
setInput(value) ==
    /\ ~isLoading
    /\ input' = value
    /\ UNCHANGED <<hookVars, streamRunVars, widgetVars>>
    /\ UNCHANGED <<externalTools, suggestions, showHeader, executed, detached, suspended>>

\* sendMessage called while an activation is in flight: the state updates
\* it makes before it is suspended on client.chat.  The activation that is
\* followed step by step stays the earlier one.
SendMessageWhileInFlight(content) ==
    /\ pc # "idle"
    /\ suspended < MaxSuspended
    /\ suspended' = suspended + 1
    /\ isLoading' = TRUE
    /\ error' = Null
    /\ uuidCount' = uuidCount + 1
    /\ messages' = Append(messages, Message(Uuid(uuidCount + 1), "user", content))
    /\ UNCHANGED <<clientVars, pc, sendVars, textVars, toolVars, idCount, nEvents,
                   nSends, histVars, lastEvent, text, call, runErr, stopped, failed,
                   atSend, settled, failures, entry, accessToken, replay>>
    /\ UNCHANGED <<streamRunVars, widgetVars>>
    /\ UNCHANGED <<externalTools, suggestions, showHeader, input, executed, detached>>

\* handleSubmit, from the submit of the form or from Enter in the textarea.
handleSubmit ==
    IF Trim(input) = <<>> \/ isLoading
    THEN UNCHANGED vars
    ELSE /\ SendMessage(Trim(input))
         /\ input' = <<>>
         /\ UNCHANGED <<externalTools, suggestions, showHeader, executed, suspended>>

\* A click on a suggestion of the empty state, which is shown while the
\* list has no message.
onSuggestionClick(suggestion) ==
    /\ Len(messages) = 0
    /\ IF pc = "idle"
       THEN SendMessage(suggestion) /\ UNCHANGED chatRest
       ELSE SendMessageWhileInFlight(suggestion)

\* clearMessages called while an activation of sendMessage is in flight: the
\* list is emptied and clientRef.current is set to null; the activation goes
\* on with the client it holds.
ClearMessagesInFlight ==
    /\ pc # "idle"
    /\ messages' = <<>>
    /\ detached' = TRUE
    /\ UNCHANGED <<isLoading, error, clientVars, pc, sendVars, textVars, toolVars,
                   uuidCount, idCount, nEvents, nSends, histVars, lastEvent, text,
                   call, runErr, stopped, failed, atSend, settled, failures, entry,
                   accessToken, replay>>
    /\ UNCHANGED <<streamRunVars, widgetVars, chatRest>>

\* A click on the clear button of the header.
onClearClick ==
    /\ showHeader
    /\ IF pc = "idle" THEN ClearMessages ELSE ClearMessagesInFlight

ChatNext ==
    \/ \E value \in InputTexts : setInput(value)
    \/ handleSubmit /\ nSends' + nEvents' <= MaxChatInputs
    \/ /\ \E i \in 1..Len(suggestions) : onSuggestionClick(suggestions[i])
       /\ nSends' + nEvents' <= MaxChatInputs
    \/ onClearClick
    \/ InFlight /\ nSends' + nEvents' <= MaxChatInputs

ChatSpec == ChatInit /\ [][ChatNext]_vars

\* ------------------------------------------------------------------ claims

\* The concatenation of a sequence of deltas, in order.
RECURSIVE Concatenation(_)
Concatenation(deltas) ==
    IF deltas = <<>> THEN <<>>
    ELSE Concatenation(SubSeq(deltas, 1, Len(deltas) - 1)) \o deltas[Len(deltas)]

\* The handler invocations made while the last delivered event was handled.
InvocationsAtLastEvent == {i \in 1..Len(handlerCalls) : handlerCalls[i].at = nEvents}

LastWasPrimaryToolCallEnd == lastEvent = [stream |-> "primary", type |-> "TOOL_CALL_END"]

\* C1: while only TEXT_MESSAGE_CONTENT deltas have followed a
\* TEXT_MESSAGE_START(id) of a stream, and after the TEXT_MESSAGE_END that
\* follows them, the message opened by that start has that id and its content
\* is the concatenation of those deltas in arrival order.
C1_ContentIsConcatenation ==
    text.phase \in {"open", "ended"} =>
        /\ text.idx \in 1..Len(messages)
        /\ messages[text.idx].id = text.id
        /\ messages[text.idx].role = "assistant"
        /\ messages[text.idx].content = Concatenation(text.deltas)

C1_Witness ==
    /\ text.phase = "ended"
    /\ Len(text.deltas) = 2
    /\ text.deltas[1] # text.deltas[2]
    /\ messages[text.idx].content = text.deltas[1] \o text.deltas[2]

C3_HandlerGetsParsedArguments ==
    (/\ LastWasPrimaryToolCallEnd
     /\ ToolsMapHas(call.name)
     /\ IsValidJSON(Concatenation(call.deltas))) =>
        /\ Cardinality(InvocationsAtLastEvent) = 1
        /\ \A i \in InvocationsAtLastEvent :
              /\ handlerCalls[i].name = call.name
              /\ handlerCalls[i].args = JSONParse(Concatenation(call.deltas))

C3_Witness ==
    /\ LastWasPrimaryToolCallEnd
    /\ pc = "tool"
    /\ Len(call.deltas) = 2
    /\ call.deltas[1] # call.deltas[2]
    /\ handlerCalls[Len(handlerCalls)].args = EmptyObject

\* C4 (as claimed): when TOOL_CALL_END arrives for a locally registered tool
\* whose accumulated arguments are not valid JSON, the handler is invoked
\* with an empty object and the parse failure is not surfaced as an error.
C4_InvalidJsonFallsBackToEmptyObject ==
    (/\ LastWasPrimaryToolCallEnd
     /\ pc \in {"tool", "stream"}
     /\ handlerOutcome.status \in {"none", "pending"}
     /\ ToolsMapHas(call.name)
     /\ ~IsValidJSON(Concatenation(call.deltas))) =>
        /\ pc = "tool"
        /\ \E i \in InvocationsAtLastEvent : handlerCalls[i].args = EmptyObject
        /\ error # JSONSyntaxErrorMessage

\* C5 (as claimed, for the sends whose streams end without a transport
\* failure): once a send whose stream delivered RUN_ERROR{message} has
\* settled, the error slot holds that message, the messages that were in the
\* list before the RUN_ERROR are still there with the same content, and the
\* loading flag is false.
C5_RunErrorSurfacedVerbatim ==
    (pc = "idle" /\ settled = "completed" /\ runErr.seen) =>
        /\ error = runErr.message
        /\ ~isLoading
        /\ Len(messages) >= Len(runErr.messages)
        /\ \A i \in 1..Len(runErr.messages) :
              /\ messages[i].id = runErr.messages[i].id
              /\ messages[i].content = runErr.messages[i].content

\* C6 (as claimed): an event that follows RUN_ERROR in the same stream
\* changes neither the message list nor the error slot, invokes no handler
\* and does not enter the transport.
C6_NothingAfterRunError ==
    [][(nEvents' = nEvents + 1 /\ lastEvent'.stream \in stopped) =>
          UNCHANGED <<messages, error, handlerCalls, chatCalls>>]_vars

C8_NothingAfterHandlerFailure ==
    [][(failed /\ nEvents' = nEvents + 1) => UNCHANGED <<messages, error>>]_vars

\* C9: an event of an unrecognized type, in the primary or in a
\* continuation stream, changes nothing of the hook's state, of the client
\* or of the activation (which stays in the same loop, so the events after
\* it are processed as without it), invokes no handler and does not enter
\* the transport.
C9_UnrecognizedEventsIgnored ==
    [][(nEvents' = nEvents + 1 /\ lastEvent'.type \in UnhandledTypes) =>
          UNCHANGED <<reactVars, clientVars, pc, sendVars, textVars, toolVars,
                      handlerCalls, chatCalls, uuidCount, idCount>>]_vars

C9_Witness ==
    /\ lastEvent.type \in UnhandledTypes
    /\ lastEvent.stream = "cont"
    /\ pc = "contStream"
    /\ currentMessageId \in MessageIds

\* C10: a TOOL_CALL_END whose function name is not in the registry invokes
\* no handler, appends no message and changes no role (so there is no new
\* tool-role message), does not enter the transport, leaves the error slot
\* alone and leaves the activation in the primary loop with its open message
\* id and accumulated content untouched, so the text events that follow are
\* processed as usual.
C10_ServerToolEndTakesNoLocalAction ==
    [][(/\ nEvents' = nEvents + 1
        /\ lastEvent' = [stream |-> "primary", type |-> "TOOL_CALL_END"]
        /\ ~ToolsMapHas(call.name)) =>
          /\ UNCHANGED <<handlerCalls, chatCalls, error, isLoading, clientVars,
                         textVars, idCount, uuidCount>>
          /\ pc' = "stream"
          /\ Len(messages') = Len(messages)
          /\ \A i \in 1..Len(messages) : messages'[i].role = messages[i].role]_vars

C10_Witness ==
    /\ Len(pendingToolCalls) = 1
    /\ ~ToolsMapHas(pendingToolCalls[1].function.name)
    /\ pendingToolCalls[1].function.name = call.name
    /\ text.phase = "open"
    /\ text.stream = "primary"
    /\ Len(text.deltas) = 1
    /\ handlerCalls = <<>>
    /\ error = Null

\* The events the for-of loop yields from the lines ls, in order.
RECURSIVE EventsOfLines(_)
EventsOfLines(ls) ==
    IF ls = <<>> \/ LineOutcome(Head(ls)) = "return" THEN <<>>
    ELSE IF LineOutcome(Head(ls)) = "yield"
    THEN <<JSONParse(Slice(Head(ls), 6))>> \o EventsOfLines(Tail(ls))
    ELSE EventsOfLines(Tail(ls))

\* The newline-terminated lines of the first n bytes of the response.
TerminatedLines(n) ==
    AllButLast(Split(DecodeStream(<<>>, SubSeq(response, 1, n)).chars))

\* The events streamRun yields when the whole body arrives as one chunk.
OneChunkEvents == EventsOfLines(TerminatedLines(Len(response)))

\* C11: whatever the cuts, when streamRun has ended it has yielded the
\* events it yields for the same response arriving as a single chunk (so any
\* two ways of cutting the response yield the same sequence of events).
C11_ChunkingDoesNotMatter ==
    reader \in {"eof", "done"} => yielded = OneChunkEvents

C11_Witness ==
    /\ reader = "eof"
    /\ cuts = {"char", "prefix"}
    /\ Len(yielded) = 2
    /\ yielded[1] # yielded[2]

\* A line that carries an event: the prefix, then a payload that parses.
IsEventLine(line) ==
    StartsWith(line, DataPrefix) /\ IsValidJSON(Slice(line, 6))

\* The payloads of the lines ls, parsed.
ParsedPayloads(ls) == [i \in 1..Len(ls) |-> JSONParse(Slice(ls[i], 6))]

\* The lines received in full that the for-of loop has gone through.
HandledLines ==
    SubSeq(TerminatedLines(offset), 1,
           Len(TerminatedLines(offset)) - Len(lines))

\* C12: as long as no terminator has been met, the events yielded are the
\* parsed payloads of the well-formed event lines handled so far, in order:
\* a line with a malformed payload or without the prefix yields nothing and
\* does not keep the lines around it from being yielded; and streamRun never
\* throws in the middle of a chunk's lines.
C12_MalformedLinesSkipped ==
    /\ reader \in {"read", "line", "eof", "threw"} =>
          yielded = ParsedPayloads(SelectSeq(HandledLines, IsEventLine))
    /\ reader = "threw" => lines = <<>>

C12_Witness ==
    /\ reader = "eof"
    /\ Len(HandledLines) = 3
    /\ StartsWith(HandledLines[2], DataPrefix)
    /\ ~IsValidJSON(Slice(HandledLines[2], 6))
    /\ Len(yielded) = 2
    /\ yielded[1] # yielded[2]

\* C13: the line with payload [DONE] ends streamRun without an event, and
\* once streamRun has ended that way it stays ended, yields nothing and
\* reads nothing, whatever arrives.
C13_NothingAfterDone ==
    [][/\ (reader = "line" /\ Head(lines) = DataPrefix \o DoneToken) =>
             (reader' = "done" /\ yielded' = yielded)
       /\ reader = "done" =>
             (reader' = "done" /\ yielded' = yielded /\ offset' = offset)]_vars

C13_Witness ==
    /\ reader = "done"
    /\ arrived > offset
    /\ yielded = <<>>
    /\ Len(SelectSeq(TerminatedLines(offset), IsEventLine)) = 1

\* C14: from a failure of the send on (a creation request or the streaming
\* request that fails, a response without a body, a read that fails, a
\* handler that fails) the error slot holds a message, and the send ends
\* with its promise resolved (through the end of the try block or through the
\* catch) and the loading flag cleared.
C14_FailuresLandInErrorSlot ==
    /\ failures # {} => error # Null
    /\ (pc = "idle" /\ failures # {}) =>
          (settled \in {"completed", "caught"} /\ ~isLoading)

C14_Witness ==
    /\ pc = "idle"
    /\ failures = {"handler", "stream"}
    /\ settled = "caught"
    /\ error = "network error"

\* C15: the loading flag is true exactly while a send is in flight (from the
\* start of sendMessage until it settles, false after it settles on every
\* path), and when every awaited promise settles and every stream ends it
\* becomes false again and again, so after every send.
C15_LoadingWhileInFlight ==
    /\ [](isLoading <=> pc # "idle")
    /\ []<>(~isLoading)

C15_Witness ==
    /\ ~isLoading
    /\ pc = "idle"
    /\ failed
    /\ runErr.seen
    /\ settled = "completed"

\* C16: the step that starts a send clears the error slot, before the send
\* has entered the transport; and after a send that ends without a failure
\* and without a RUN_ERROR the slot is empty, whatever an earlier send left.
C16_ErrorClearedOnSend ==
    /\ []((pc = "idle" /\ settled = "completed" /\ failures = {} /\ ~runErr.seen) =>
             error = Null)
    /\ [][(pc = "idle" /\ pc' = "chat") => (error' = Null /\ entry'.idx = 0)]_vars

\* The list at send time shows that an earlier send met a parse failure,
\* which set the error slot.
C16_Witness ==
    /\ pc = "idle"
    /\ settled = "completed"
    /\ failures = {}
    /\ ~runErr.seen
    /\ error = Null
    /\ \E i \in 1..Len(atSend) :
          /\ atSend[i].toolCalls # <<>>
          /\ ToolsMapHas(atSend[i].toolCalls[1].function.name)
          /\ ~IsValidJSON(atSend[i].toolCalls[1].function.arguments)

\* ------------------------------------------------------------------- C17

\* C17: clearMessages, called with no send in flight, leaves an empty list and
\* no thread or run id; the first transport entry after it (as after
\* mounting) is a createThread, made with no thread known, and the history it
\* sends is the new user message alone.
C17_ResetStartsNewThread ==
    /\ [](  (entry.n = 1 /\ entry.idx = 1)
          => /\ entry.create = "thread"
             /\ entry.under = NoThread
             /\ atSend = <<>>
             /\ Len(chatCalls[1]) = 1
             /\ chatCalls[1][1].role = "user"
             /\ (pc # "idle" => chatCalls[1][1] = userMessage))
    /\ [][(pc = "idle" /\ pc' = "idle")
            => (messages' = <<>> /\ threadId' = NoThread /\ currentRunId' = NoRun)]_vars

\* The second send follows a reset that discarded the thread the first send
\* had created: it creates the thread 3 and the run 4.
C17_Witness ==
    /\ nSends = 2
    /\ entry.n = 1
    /\ entry.create = "thread"
    /\ entry.ok
    /\ entry.returned = [thread |-> 3, run |-> 4]
    /\ threadId = 3
    /\ chatCalls[1] = <<userMessage>>

\* ------------------------------------------------------------------- C18

\* C18 as stated: of the transport entries made since mounting or the last
\* reset only the first creates a thread.
C18_OnlyFirstEntryCreatesThread ==
    entry.create = "thread" => entry.n = 1

\* C18, amended: without a reset the thread id, once set, never changes; a
\* transport entry creates a thread exactly when no thread id is set (the
\* first entry, and every entry after creation requests that were all
\* refused) and otherwise creates a run under the thread that is set; the
\* streaming request carries the ids its creation call returned.
C18_ThreadAndRunIdentity ==
    /\ [](/\ entry.create = "thread" <=> (entry.idx >= 1 /\ entry.under = NoThread)
          /\ entry.create = "run" <=> (entry.idx >= 1 /\ entry.under # NoThread)
          /\ (entry.create = "run" /\ entry.ok)
               => (entry.returned.thread = entry.under /\ threadId = entry.under)
          /\ entry.ok => /\ entry.streamed = entry.returned
                          /\ entry.streamed = [thread |-> threadId,
                                                run |-> currentRunId]
                          /\ entry.streamed.thread # NoThread
                          /\ entry.streamed.run # NoRun)
    /\ [][(threadId # NoThread /\ (pc # "idle" \/ pc' # "idle"))
            => threadId' = threadId]_vars
    /\ [][(entry'.n > entry.n /\ entry'.ok)
            => (currentRunId' # currentRunId /\ currentRunId' = entry'.returned.run)]_vars

\* The third entry of a conversation is a tool-result continuation that
\* created the run 4 under the thread 1 of the first entry; the second entry
\* was a later user message.
C18_Witness ==
    /\ entry.n = 3
    /\ entry.idx = 2
    /\ nSends = 2
    /\ entry.create = "run"
    /\ entry.ok
    /\ entry.under = 1
    /\ entry.streamed = [thread |-> 1, run |-> 4]

\* ------------------------------------------------------------------- C19

\* C19: every request of a transport entry (the creation request and, when
\* it succeeded, the streaming request) carries the token of the credential
\* provider as a bearer Authorization header, and no such header when the
\* provider returns no token.
C19_RequestsCarryBearerToken ==
    \A i \in 1..Len(entry.headers) :
        entry.headers[i].authorization =
            IF accessToken = Null THEN Absent ELSE "Bearer " \o accessToken

\* ------------------------------------------------------------------- C20

\* The second run has been given every input of the first and has ended.
ReplayEnded ==
    /\ replay.mode = "second"
    /\ replay.pos > Len(replay.script)
    /\ pc = "idle"

\* C20: sendMessage run twice from a fresh state over the same inputs (the
\* same content, the same events in the same order, the same tool results)
\* ends with the same message list.
C20_ReplayYieldsSameList ==
    ReplayEnded => messages = replay.first

\* ------------------------------------------------------------------- C21

\* Everything of the widget but the record of the last call.
WidgetButLastInput ==
    <<roots, document, instance, container, controls, autoHideSeconds, mounted,
      isOpen, isVisible, hasInteracted, updates, timer, nInit>>

\* C21: at most one React root of the widget is alive, and it is the root of
\* the instance; init() with an instance changes nothing; destroy() unmounts
\* the root, removes the container and forgets the instance; init() without
\* an instance (at first, or after destroy()) makes a new root in a
\* container of the document; destroy(), open() and close() without an
\* instance change nothing.
C21_AtMostOneInstance ==
    /\ [](/\ Cardinality(roots) <= 1
          /\ roots = IF instance = 0 THEN {} ELSE {instance}
          /\ instance # 0 => container \in document
          /\ instance = 0 => (~mounted /\ ~controls /\ container = Null))
    /\ [][(lastInput # "init" /\ lastInput' = "init" /\ instance # 0)
            => UNCHANGED WidgetButLastInput]_vars
    /\ [][(lastInput # "destroy" /\ lastInput' = "destroy" /\ instance # 0)
            => (instance' = 0 /\ roots' = {} /\ container \notin document'
                /\ ~mounted')]_vars
    /\ [][(lastInput # "init" /\ lastInput' = "init" /\ instance = 0)
            => (instance' = nInit + 1 /\ instance' \notin roots
                /\ container' \in document' /\ ~mounted' /\ ~controls')]_vars
    /\ [][(instance = 0 /\ lastInput' \in {"destroy", "open", "close"})
            => UNCHANGED WidgetButLastInput]_vars

\* The second instance, made by init() after destroy(), has been mounted
\* and its panel opened by a click; the init() that came after the click
\* has been ignored.
C21_Witness ==
    /\ instance = 2
    /\ roots = {2}
    /\ mounted
    /\ isOpen
    /\ lastInput = "init"
    /\ container = "host"
    /\ autoHideSeconds = 15

\* ------------------------------------------------------------------- C22

\* C22: an open() made while an instance exists opens the panel.  When the
\* widget is mounted and has nothing left to render, and nothing was asked
\* of it after that open(), nothing more will happen: the panel is open.
C22_OpenOpensThePanel ==
    (instance # 0 /\ mounted /\ updates = <<>> /\ lastInput = "open") => isOpen

\* ------------------------------------------------------------------- C23

\* The widget draws something: ChatWidget returns null when it is neither
\* visible nor open.
Drawn == isVisible \/ isOpen

\* C23: the bubble is hidden only by the timer, which fires only with
\* autoHideSeconds > 0 and before the user has opened the panel; with
\* autoHideSeconds = 0 it is never hidden; whenever the panel is open or has
\* been opened before, the mounted widget is drawn.
C23_HiddenOnlyByAutoHide ==
    /\ [](mounted => /\ autoHideSeconds = 0 => (isVisible /\ timer = "none")
                     /\ (isOpen \/ hasInteracted) => Drawn
                     /\ isOpen => hasInteracted)
    /\ [][(isVisible /\ ~isVisible')
            => (autoHideSeconds > 0 /\ ~hasInteracted /\ ~isOpen)]_vars

\* ------------------------------------------------------------------- C24

\* The step handles the event `type` of the primary stream.
Handles(type) ==
    /\ nEvents' = nEvents + 1
    /\ lastEvent' = [stream |-> "primary", type |-> type]

\* C24: TOOL_CALL_START of a local tool, arriving when the last message
\* opened by TEXT_MESSAGE_START has been ended, appends a new empty
\* assistant message, which becomes the open one; the ended message is left
\* as it is.
C24_ToolCallAfterEndOpensNewMessage ==
    [][(Handles("TOOL_CALL_START") /\ text.phase = "ended"
        /\ ToolsMapHas(currentToolName'))
        => /\ Len(messages') = Len(messages) + 1
           /\ SubSeq(messages', 1, Len(messages)) = messages
           /\ messages'[Len(messages')].role = "assistant"
           /\ messages'[Len(messages')].content = EmptyStr
           /\ currentMessageId' = messages'[Len(messages')].id
           /\ currentMessageId' # text.id]_vars

\* ------------------------------------------------------------------- C25

\* The ToolCall record of the call opened by the latest TOOL_CALL_START,
\* with the argument fragments received since.
FinalizedCall ==
    [id |-> call.id, type |-> "function",
     function |-> [name |-> call.name,
                   arguments |-> ToolCallArguments(Concatenation(call.deltas))]]

\* C25: TOOL_CALL_END adds the finalized call to the list of the open
\* assistant message, after the calls that ended earlier under that
\* message, and changes no other message: a message's list holds exactly
\* the calls that ended while it was the open one.
C25_ToolCallAttachedToOpenMessage ==
    [][Handles("TOOL_CALL_END")
        => /\ Len(messages') = Len(messages)
           /\ \A i \in 1..Len(messages) :
                 IF messages[i].id = currentMessageId
                 THEN /\ messages'[i].toolCalls
                           = Append(messages[i].toolCalls, FinalizedCall)
                      /\ messages'[i].id = messages[i].id
                 ELSE messages'[i] = messages[i]]_vars

\* ------------------------------------------------------------------- C26

\* Every tool call of every message of the list `ms` has arguments that are
\* valid JSON.
ArgumentsValid(ms) ==
    \A i \in 1..Len(ms) : \A j \in 1..Len(ms[i].toolCalls) :
        IsValidJSON(ms[i].toolCalls[j].function.arguments)

\* C26: the arguments of every ToolCall record attached to a message of the
\* list, or contained in a history passed to client.chat, are valid JSON.
C26_ArgumentsAreValidJSON ==
    /\ ArgumentsValid(messages)
    /\ \A k \in 1..Len(chatCalls) : ArgumentsValid(chatCalls[k])

\* ------------------------------------------------------------------- C27

\* The entries of the list that the step changes.
ChangedEntries == {i \in 1..Len(messages) : messages'[i] # messages[i]}

\* C27: a TEXT_MESSAGE_CONTENT event, of the primary or of a continuation
\* stream, changes the content of at most one entry of the list, and adds
\* or removes none.
C27_ContentChangesOneMessage ==
    [][(nEvents' = nEvents + 1 /\ lastEvent'.type = "TEXT_MESSAGE_CONTENT")
        => (Len(messages') = Len(messages) /\ Cardinality(ChangedEntries) <= 1)]_vars

\* ------------------------------------------------------------------- C28

\* The step handles an event of the stream `stream`.
EventOf(stream) == nEvents' = nEvents + 1 /\ lastEvent'.stream = stream

\* C28: one event is handled at a time.  An event of the primary stream is
\* handled only when no handler is pending and no continuation is under
\* way; an event of a continuation only while that continuation is being
\* consumed; the send returns to the primary loop from a handler or a
\* continuation only when that has ended (the handler rejected, the stream
\* was consumed to its end, or the continuation failed), in a step that
\* handles no event; and an event never moves or removes entries of the
\* list, so the entries stay in the order in which their events arrived.
C28_EventsAreSequential ==
    /\ [](pc = "tool" <=> handlerOutcome.status = "pending")
    /\ [][EventOf("primary")
            => (pc = "stream" /\ pc' \in {"stream", "tool"}
                /\ handlerOutcome.status # "pending")]_vars
    /\ [][EventOf("cont") => (pc = "contStream" /\ pc' = "contStream")]_vars
    /\ [][(pc \in {"tool", "contChat", "contStream"} /\ pc' \notin {"contChat", "contStream"})
            => (pc' = "stream" /\ nEvents' = nEvents /\ messages' = messages)]_vars
    /\ [][nEvents' = nEvents + 1
            => /\ Len(messages') >= Len(messages)
               /\ \A i \in 1..Len(messages) : messages'[i].id = messages[i].id]_vars

\* A local tool call, its result, a message of the continuation stream and
\* then, after the continuation ended, a message of the primary stream:
\* the list has them in that order.
C28_Witness ==
    /\ pc = "stream"
    /\ entry.idx = 2
    /\ entry.ok
    /\ lastEvent = [stream |-> "primary", type |-> "TEXT_MESSAGE_START"]
    /\ Len(messages) = 5
    /\ messages[3].role = "tool"
    /\ messages[4].id = "m1"
    /\ messages[5].id = "m2"

\* ------------------------------------------------------------------- C29

\* C29: a tool call that starts and ends inside a continuation stream is a
\* nested tool round: at its TOOL_CALL_END the handler is invoked (the send
\* waits for it), and the events of the call do not set the error slot.
\* The continuation loop reads nothing of these events but their type, so
\* the step is the same whatever tool the call names, a registered one
\* included.
C29_ToolCallInContinuationIsNestedRound ==
    [][(/\ EventOf("cont")
        /\ lastEvent.stream = "cont"
        /\ lastEvent.type \in {"TOOL_CALL_START", "TOOL_CALL_ARGS"}
        /\ lastEvent'.type = "TOOL_CALL_END")
        => /\ Len(handlerCalls') = Len(handlerCalls) + 1
           /\ pc' = "tool"
           /\ error' = error]_vars

\* ------------------------------------------------------------------- C30

\* A step of a send: the call of sendMessage, or a step taken while the send
\* is in flight.
StepOfSend == pc # "idle" \/ pc' # "idle"

\* C30: no rollback.  In every step of a send the list keeps its entries in
\* place (none removed, none moved), the content of an entry already in the
\* list does not get shorter, and user and tool entries stay as they were
\* appended.
C30_NoRollback ==
    [][StepOfSend =>
        /\ Len(messages') >= Len(messages)
        /\ \A i \in 1..Len(messages) :
              /\ messages'[i].id = messages[i].id
              /\ Len(messages'[i].content) >= Len(messages[i].content)
              /\ messages[i].role \in {"user", "tool"}
                    => messages'[i] = messages[i]]_vars

\* ------------------------------------------------------------------- C31

\* The history the last transport entry of the send was given, and the body
\* of its streaming request.
EntryHistory == chatCalls[entry.idx]
RequestBody == RunAgentInput(entry.streamed, EntryHistory)

\* C31: the body of the streaming request of a transport entry carries the
\* thread and the run just created, and one message per entry of the
\* history, in order, with its role and content; toolCalls only on an
\* assistant entry whose list is not empty, toolCallId only on a tool entry.
C31_RequestBodyCarriesHistory ==
    (entry.ok /\ entry.idx >= 1) =>
        /\ entry.idx <= Len(chatCalls)
        /\ \A body \in {RequestBody} :
              /\ body.thread_id = entry.returned.thread
              /\ body.run_id = entry.returned.run
              /\ body.run_id # NoRun
              /\ Len(body.messages) = Len(EntryHistory)
              /\ \A i \in 1..Len(EntryHistory) :
                    \A m \in {body.messages[i]}, h \in {EntryHistory[i]} :
                        /\ m.role = h.role
                        /\ m.content = h.content
                        /\ "toolCalls" \in DOMAIN m
                              => /\ h.role = "assistant"
                                 /\ h.toolCalls # <<>>
                                 /\ m.toolCalls = h.toolCalls
                        /\ "toolCallId" \in DOMAIN m
                              => /\ h.role = "tool"
                                 /\ m.toolCallId = h.toolCallId

\* A continuation's request is under way: its body has the user message,
\* the assistant message with its tool call, and the tool result with its
\* toolCallId.
C31_Witness ==
    /\ pc = "contStream"
    /\ entry.ok
    /\ entry.idx = 2
    /\ Len(RequestBody.messages) = 3
    /\ DOMAIN RequestBody.messages[1] = {"id", "role", "content"}
    /\ "toolCalls" \in DOMAIN RequestBody.messages[2]
    /\ "toolCallId" \in DOMAIN RequestBody.messages[3]
    /\ RequestBody.messages[3].id = "msg_2"

\* ------------------------------------------------------------------- C33

\* The primary stream delivers a TOOL_CALL_END that no TOOL_CALL_START
\* precedes: none in this send, or none since the TOOL_CALL_END that was
\* the last event before it.
OrphanToolCallEnd ==
    /\ EventOf("primary")
    /\ lastEvent'.type = "TOOL_CALL_END"
    /\ \/ call = NoCall
       \/ lastEvent = [stream |-> "primary", type |-> "TOOL_CALL_END"]

\* C33: an orphan or duplicated TOOL_CALL_END is a no-op: no message
\* changes, no handler is invoked, the transport is not entered.
C33_OrphanToolCallEndIsNoOp ==
    [][OrphanToolCallEnd =>
         /\ messages' = messages
         /\ handlerCalls' = handlerCalls
         /\ chatCalls' = chatCalls
         /\ pc' = pc]_vars

\* ------------------------------------------------------------------- C35

\* In the history h, every call of a registered tool listed by an assistant
\* message has a tool message with its toolCallId further on.
LocalCallsAnswered(h) ==
    \A i \in 1..Len(h) :
        \A j \in 1..Len(h[i].toolCalls) :
            ToolsMapHas(h[i].toolCalls[j].function.name) =>
                \E k \in (i + 1)..Len(h) :
                    /\ h[k].role = "tool"
                    /\ h[k].toolCallId = h[i].toolCalls[j].id

\* C35: every history passed to client.chat, by the first entry of a send
\* and by every continuation, answers the local tool calls it lists.
C35_HistoriesAnswerLocalCalls ==
    \A n \in 1..Len(chatCalls) : LocalCallsAnswered(chatCalls[n])

\* ------------------------------------------------------------------- C37

\* C37: a send enters the transport at most once more than it has invoked
\* handlers; a handler is invoked only by a TOOL_CALL_END of the primary
\* stream that names a registered tool, once per such event; an event of a
\* continuation stream invokes no handler and enters no transport; and
\* every send comes to its end.
C37_TransportEntriesBounded ==
    /\ [](/\ Len(chatCalls) <= 1 + Len(handlerCalls)
          /\ entry.idx <= Len(chatCalls))
    /\ [][Len(handlerCalls') > Len(handlerCalls) =>
             /\ EventOf("primary")
             /\ lastEvent'.type = "TOOL_CALL_END"
             /\ ToolsMapHas(currentToolName)
             /\ Len(handlerCalls') = Len(handlerCalls) + 1]_vars
    /\ [][EventOf("cont") =>
             UNCHANGED <<handlerCalls, chatCalls, entry, pc>>]_vars
    /\ []<>(pc = "idle")

\* A send with two local tool calls has ended: it entered the transport
\* three times.
C37_Witness ==
    /\ pc = "idle"
    /\ settled = "completed"
    /\ Len(handlerCalls) = 2
    /\ Len(chatCalls) = 3
    /\ entry.idx = 3

\* ------------------------------------------------------------------- C39

\* C39: an entry of the transport whose creation request fails issues no
\* streaming request and leaves the run id; after a response that is not ok
\* the thread id is as before, after a thread that came without a run the
\* thread id is that thread's; and every entry creates a thread when the
\* client knows none, a run under the known thread otherwise.
C39_ThreadRecordedBeforeRunCheck ==
    /\ [][(entry'.n = entry.n + 1 /\ ~entry'.ok) =>
             /\ currentRunId' = currentRunId
             /\ entry'.streamed = NoIds
             /\ Len(entry'.headers) = 1
             /\ IF entry'.returned.thread = NoThread
                THEN threadId' = threadId
                ELSE /\ threadId = NoThread
                     /\ threadId' = entry'.returned.thread
                     /\ threadId' # NoThread]_vars
    /\ [][entry'.n = entry.n + 1 =>
             /\ entry'.create = (IF threadId = NoThread THEN "thread" ELSE "run")
             /\ entry'.under = threadId]_vars

\* The first send got the thread 1 without a run; the second send created
\* the run 2 under it.
C39_Witness ==
    /\ nSends = 2
    /\ entry.n = 2
    /\ entry.create = "run"
    /\ entry.ok
    /\ entry.under = 1
    /\ entry.streamed = [thread |-> 1, run |-> 2]
    /\ pc = "stream"

\* ------------------------------------------------------------------- C40

\* The tool names the reducer may hold when a TOOL_CALL_END arrives: those
\* the server sends, and the empty name of a call that was never started.
ServerToolNames == {s.name : s \in ToolStarts} \cup {NoId}

\* C40: executeClientTool is called with registered names only, and its
\* 'Unknown tool' failure never reaches the error slot.
C40_UnknownToolCannotOccur ==
    /\ \A i \in 1..Len(handlerCalls) : ToolsMapHas(handlerCalls[i].name)
    /\ \A name \in ServerToolNames : error # "Unknown tool: " \o name

\* The stream has ended a call of a tool that is not registered and then a
\* call of a registered one: only the second reached executeClientTool.
C40_Witness ==
    /\ pc = "tool"
    /\ Len(pendingToolCalls) = 2
    /\ pendingToolCalls[1].function.name = "search"
    /\ ~ToolsMapHas("search")
    /\ Len(handlerCalls) = 1
    /\ handlerCalls[1].name = "get_current_time"
    /\ error = Null

\* ------------------------------------------------------------------- C38

\* The text of the whole response, cut at its newlines.
ResponsePieces == Split(DecodeStream(<<>>, response).chars)

\* C38: when the body has ended and no terminator was met, streamRun has
\* yielded the events of the lines that ended with a newline, in order, and
\* nothing else; the text after the last newline is what is left in the
\* buffer, and it is dropped with it.
C38_UnterminatedLineIsDropped ==
    reader = "eof" =>
        /\ yielded = ParsedPayloads(SelectSeq(AllButLast(ResponsePieces), IsEventLine))
        /\ buffer = ResponsePieces[Len(ResponsePieces)]
        /\ lines = <<>>

\* The body ended with an event line that has no newline after it: the
\* event of the line before it was yielded, that of the last line was not.
C38_Witness ==
    /\ reader = "eof"
    /\ IsEventLine(buffer)
    /\ Len(yielded) = 1
    /\ yielded[1] # JSONParse(Slice(buffer, 6))

\* ------------------------------------------------------------------- C32

\* The places of the registry that hold a tool of the name looked up last.
RegisteredAt ==
    {i \in 1..Len(CombinedTools(externalTools)) :
        CombinedTools(externalTools)[i].name = executed.name}

\* C32: the registry is the built-in tools followed by the external ones,
\* and the handler executed for a name is that of the last tool registered
\* under it: an external tool with the name of a built-in one is executed in
\* its place, a name registered once gives its tool, a name not registered
\* gives 'Unknown tool'.
C32_LastRegistrationWins ==
    /\ SubSeq(CombinedTools(externalTools), 1, Len(builtInTools)) = builtInTools
    /\ SubSeq(CombinedTools(externalTools), Len(builtInTools) + 1,
              Len(CombinedTools(externalTools))) = externalTools
    /\ executed # NoExecution =>
          IF RegisteredAt = {}
          THEN executed.handler = "Unknown tool"
          ELSE \E last \in RegisteredAt :
                  /\ \A i \in RegisteredAt : i <= last
                  /\ executed.handler = CombinedTools(externalTools)[last].handler
                  /\ (\E i \in 1..Len(externalTools) :
                          externalTools[i].name = executed.name)
                        => executed.handler # "builtIn"

\* Two external tools have the name of the built-in one: the handler of the
\* second was executed.
C32_Witness ==
    /\ Len(externalTools) = 2
    /\ externalTools[1] = [name |-> "get_current_time", handler |-> "ext1"]
    /\ externalTools[2] = [name |-> "get_current_time", handler |-> "ext2"]
    /\ executed = [name |-> "get_current_time", handler |-> "ext2"]

\* ------------------------------------------------------------------- C34

\* sendMessage is invoked: by the activation that is followed, or by one
\* that is started while it is in flight.
SendMessageInvoked == nSends' = nSends + 1 \/ suspended' = suspended + 1

\* C34: the Chat component never invokes sendMessage while isLoading.
C34_SingleStreamConsumer == [][SendMessageInvoked => ~isLoading]_vars

\* ------------------------------------------------------------------- C36

\* C36: after clearMessages was called on a send in flight, no step of that
\* send adds a message to the list.
C36_NothingAddedAfterResetInFlight ==
    [][(pc # "idle" /\ detached /\ suspended' = suspended)
          => Len(messages') <= Len(messages)]_vars

====
